---- MODULE Spec2Model ----
(***************************************************************************)
(* A model of the routing engine: the ShortcutGraph store, the H3 cell     *)
(* helpers of h3_utils, and the three bidirectional searches               *)
(* query_classic, query_pruned and query_multi of shortcut_graph.cpp.      *)
(*                                                                         *)
(* Costs and distances are doubles in the code; the model uses small       *)
(* naturals, on which the additions and comparisons of the code are exact. *)
(***************************************************************************)
EXTENDS Integers, Sequences, FiniteSets, Bags, TLC

VARIABLES
    shortcuts_,   \* ShortcutGraph::shortcuts_  : sequence of Shortcut records
    fwd_adj_,     \* ShortcutGraph::fwd_adj_    : edge -> sequence of positions
    bwd_adj_,     \* ShortcutGraph::bwd_adj_    : edge -> sequence of positions
    edge_meta_,   \* ShortcutGraph::edge_meta_  : edge -> EdgeMeta
    phase,        \* where the driver is: "new", "shortcuts", "ready", "failed"
    files,        \* the two input files: the shortcut rows and the metadata table
    frame,        \* the locals of the query call in progress (or finished last)
    calls,        \* how many query calls were made, counted up to MaxCalls
    other,        \* the locals of a second query call, running concurrently
    h3            \* the last call of an h3_utils function, with its return value

vars == <<files, shortcuts_, fwd_adj_, bwd_adj_, edge_meta_, phase, frame, calls, other, h3>>

store == <<shortcuts_, fwd_adj_, bwd_adj_, edge_meta_>>

(***************************************************************************)
(* Bounds of the model.                                                    *)
(***************************************************************************)
\* Edge identifiers are 0..MaxEdge.
MaxEdge == 2
\* A shortcut artifact holds at most MaxShortcuts records.
MaxShortcuts == 2
\* Shortcut costs, edge costs and endpoint offsets are 0..MaxCost.
MaxCost == 1
\* Cells have resolutions 0..MaxRes.
MaxRes == 2
\* An endpoint list of query_multi has at most MaxEndpoints entries.
MaxEndpoints == 1
\* The offsets of the endpoints of query_multi are 0..MaxOffset.
MaxOffset == 0
\* Query calls are counted up to MaxCalls; further calls leave the count.
MaxCalls == 2

\* std::numeric_limits<double>::infinity()
INF == 1000000

Edges == 0..MaxEdge

(***************************************************************************)
(* The H3 grid, as far as h3_utils uses it: a forest in which every cell   *)
(* of resolution r > 0 has one parent of resolution r - 1.  Cell 0 is "no  *)
(* cell".  The model's forest has two cells of resolution 0 (2 and 3) and  *)
(* two children per cell (2c and 2c+1).                                    *)
(***************************************************************************)
RECURSIVE Pow2(_)
Pow2(n) == IF n = 0 THEN 1 ELSE 2 * Pow2(n - 1)

Cells == 2..(Pow2(MaxRes + 2) - 1)

CellsOrNone == {0} \cup Cells

RECURSIVE getResolution(_)
getResolution(cell) == IF cell < 4 THEN 0 ELSE 1 + getResolution(cell \div 2)

\* Called only with 0 <= res < getResolution(cell), where H3 succeeds.
RECURSIVE cellToParent(_, _)
cellToParent(cell, res) ==
    IF getResolution(cell) <= res THEN cell ELSE cellToParent(cell \div 2, res)

(***************************************************************************)
(* h3_utils                                                                *)
(***************************************************************************)
get_resolution(cell) == IF cell = 0 THEN -1 ELSE getResolution(cell)

cell_to_parent(cell, target_res) ==
    IF cell = 0 \/ target_res < 0 THEN 0
    ELSE IF target_res >= getResolution(cell) THEN cell
    ELSE cellToParent(cell, target_res)

\* The while loop of find_lca.
RECURSIVE lca_climb(_, _, _)
lca_climb(c1, c2, min_res) ==
    IF c1 # c2 /\ min_res > 0
    THEN lca_climb(cell_to_parent(c1, min_res - 1),
                   cell_to_parent(c2, min_res - 1), min_res - 1)
    ELSE IF c1 = c2 THEN c1 ELSE 0

\* find_lca without bringing the two cells to the same resolution first.
find_lca_no_levelling(cell1, cell2) ==
    IF cell1 = 0 \/ cell2 = 0 THEN 0
    ELSE LET res1 == getResolution(cell1)
             res2 == getResolution(cell2)
             min_res == IF res1 < res2 THEN res1 ELSE res2
         IN lca_climb(cell1, cell2, min_res)

find_lca(cell1, cell2) ==
    IF cell1 = 0 \/ cell2 = 0 THEN 0
    ELSE LET res1 == getResolution(cell1)
             res2 == getResolution(cell2)
             min_res == IF res1 < res2 THEN res1 ELSE res2
             c1 == IF res1 > min_res THEN cell_to_parent(cell1, min_res) ELSE cell1
             c2 == IF res2 > min_res THEN cell_to_parent(cell2, min_res) ELSE cell2
         IN lca_climb(c1, c2, min_res)

\* parent_check with "high_res >= node_res" for "high_res > node_res".
parent_check_off_by_one(node_cell, high_cell, high_res) ==
    IF high_cell = 0 \/ high_res < 0 THEN TRUE
    ELSE IF node_cell = 0 THEN FALSE
    ELSE IF high_res >= getResolution(node_cell) THEN FALSE
    ELSE cell_to_parent(node_cell, high_res) = high_cell

parent_check(node_cell, high_cell, high_res) ==
    IF high_cell = 0 \/ high_res < 0 THEN TRUE
    ELSE IF node_cell = 0 THEN FALSE
    ELSE IF high_res > getResolution(node_cell) THEN FALSE
    ELSE cell_to_parent(node_cell, high_res) = high_cell

(***************************************************************************)
(* The store.  A Shortcut is modelled by the fields the queries read       *)
(* (from, to, cost, inside); via_edge and cell are stored and never read.  *)
(* An EdgeMeta is modelled by incoming_cell, lca_res and cost.  Positions  *)
(* in shortcuts_ start at 1.                                               *)
(***************************************************************************)
InsideValues == {-2, -1, 0, 1}

ShortcutRecords ==
    [from : Edges, to : Edges, cost : 0..MaxCost, inside : InsideValues]

EdgeMetaRecords ==
    [incoming_cell : CellsOrNone, lca_res : -1..MaxRes, cost : 0..MaxCost]

\* The positions of recs whose key is e, in loading order.
PositionsFrom(recs, e) ==
    LET Hit(i) == recs[i].from = e
    IN SelectSeq([i \in 1..Len(recs) |-> i], Hit)

PositionsTo(recs, e) ==
    LET Hit(i) == recs[i].to = e
    IN SelectSeq([i \in 1..Len(recs) |-> i], Hit)

\* load_parquet_file: every row is appended and indexed under both keys.
FwdAdjOf(recs) ==
    [e \in {recs[i].from : i \in 1..Len(recs)} |-> PositionsFrom(recs, e)]

BwdAdjOf(recs) ==
    [e \in {recs[i].to : i \in 1..Len(recs)} |-> PositionsTo(recs, e)]

get_edge_cost(edge_id) ==
    IF edge_id \in DOMAIN edge_meta_ THEN edge_meta_[edge_id].cost ELSE 0

get_edge_cell(edge_id) ==
    IF edge_id \in DOMAIN edge_meta_ THEN edge_meta_[edge_id].incoming_cell ELSE 0

\* compute_high_cell returning the source's lca_res as the resolution.
compute_high_cell_keeps_lca_res(source_edge, target_edge) ==
    IF source_edge \notin DOMAIN edge_meta_ \/ target_edge \notin DOMAIN edge_meta_
    THEN [cell |-> 0, res |-> -1]
    ELSE LET src == edge_meta_[source_edge]
             dst == edge_meta_[target_edge]
         IN IF src.incoming_cell = 0 \/ dst.incoming_cell = 0
            THEN [cell |-> 0, res |-> -1]
            ELSE LET src_cell == IF src.lca_res >= 0
                                 THEN cell_to_parent(src.incoming_cell, src.lca_res)
                                 ELSE src.incoming_cell
                     dst_cell == IF dst.lca_res >= 0
                                 THEN cell_to_parent(dst.incoming_cell, dst.lca_res)
                                 ELSE dst.incoming_cell
                     lca == find_lca(src_cell, dst_cell)
                 IN [cell |-> lca,
                     res |-> IF lca # 0 THEN src.lca_res ELSE -1]

compute_high_cell(source_edge, target_edge) ==
    IF source_edge \notin DOMAIN edge_meta_ \/ target_edge \notin DOMAIN edge_meta_
    THEN [cell |-> 0, res |-> -1]
    ELSE LET src == edge_meta_[source_edge]
             dst == edge_meta_[target_edge]
         IN IF src.incoming_cell = 0 \/ dst.incoming_cell = 0
            THEN [cell |-> 0, res |-> -1]
            ELSE LET src_cell == IF src.lca_res >= 0
                                 THEN cell_to_parent(src.incoming_cell, src.lca_res)
                                 ELSE src.incoming_cell
                     dst_cell == IF dst.lca_res >= 0
                                 THEN cell_to_parent(dst.incoming_cell, dst.lca_res)
                                 ELSE dst.incoming_cell
                     lca == find_lca(src_cell, dst_cell)
                 IN [cell |-> lca,
                     res |-> IF lca # 0 THEN get_resolution(lca) ELSE -1]

(***************************************************************************)
(* The locals of a query call.  A distance or parent table is a function   *)
(* whose domain is the set of keys of the unordered_map.  A MinHeap is a   *)
(* bag of PQEntry records: PQEntry::operator> compares dist only, so the   *)
(* order in which entries of equal dist are popped is not determined by    *)
(* the code, and a pop takes any entry of least dist.                      *)
(***************************************************************************)
Put(map, key, value) ==
    [k \in DOMAIN map \cup {key} |-> IF k = key THEN value ELSE map[k]]

\* unordered_map::operator[] on a key that may be absent (value-initialised).
At(map, key) == IF key \in DOMAIN map THEN map[key] ELSE 0

\* fwd_adj_.find(u) / bwd_adj_.find(u): no positions when u is no key.
Adj(adj, u) == IF u \in DOMAIN adj THEN adj[u] ELSE <<>>

PQEntry(d, e) == [dist |-> d, edge |-> e]

Push(pq, entry) == pq (+) SetToBag({entry})

Pop(pq, entry) == pq (-) SetToBag({entry})

IsEmpty(pq) == BagToSet(pq) = {}

\* Tops on a queue that hands out its entries in any order.
Tops_in_any_order(pq) == BagToSet(pq)

Tops(pq) == {e \in BagToSet(pq) : \A o \in BagToSet(pq) : e.dist <= o.dist}

TopDist(pq) == (CHOOSE e \in Tops(pq) : TRUE).dist

Unreachable == [distance |-> -1, path |-> <<>>, reachable |-> FALSE]

NoResult == [distance |-> -2, path |-> <<>>, reachable |-> FALSE]

\* The frame before any call.
NoFrame ==
    [pc |-> "none", variant |-> "none",
     source_edge |-> 0, target_edge |-> 0,
     source_edges |-> <<>>, source_dists |-> <<>>,
     target_edges |-> <<>>, target_dists |-> <<>>,
     high |-> [cell |-> 0, res |-> -1],
     dist_fwd |-> <<>>, dist_bwd |-> <<>>,
     parent_fwd |-> <<>>, parent_bwd |-> <<>>,
     pq_fwd |-> EmptyBag, pq_bwd |-> EmptyBag,
     best |-> INF, meeting |-> 0, found |-> FALSE,
     result |-> NoResult]

\* The test of "while (!pq_fwd.empty() || !pq_bwd.empty())": where control
\* goes at the top of the loop, also after a "continue".
LoopTop(f) ==
    [f EXCEPT !.pc = IF IsEmpty(f.pq_fwd) /\ IsEmpty(f.pq_bwd) THEN "exit" ELSE "fwd"]

(***************************************************************************)
(* query_classic                                                           *)
(***************************************************************************)
\* classic_begin seeding the forward side with the cost of the source edge.
classic_begin_counts_source(source_edge, target_edge) ==
    IF source_edge = target_edge
    THEN [NoFrame EXCEPT !.pc = "done", !.variant = "classic",
                         !.source_edge = source_edge, !.target_edge = target_edge,
                         !.result = [distance |-> get_edge_cost(source_edge),
                                     path |-> <<source_edge>>,
                                     reachable |-> TRUE]]
    ELSE LET target_cost == get_edge_cost(target_edge)
             source_cost == get_edge_cost(source_edge)
         IN LoopTop([NoFrame EXCEPT
                !.variant = "classic",
                !.source_edge = source_edge, !.target_edge = target_edge,
                !.dist_fwd = Put(<<>>, source_edge, source_cost),
                !.parent_fwd = Put(<<>>, source_edge, source_edge),
                !.pq_fwd = Push(EmptyBag, PQEntry(source_cost, source_edge)),
                !.dist_bwd = Put(<<>>, target_edge, target_cost),
                !.parent_bwd = Put(<<>>, target_edge, target_edge),
                !.pq_bwd = Push(EmptyBag, PQEntry(target_cost, target_edge))])

classic_begin(source_edge, target_edge) ==
    IF source_edge = target_edge
    THEN [NoFrame EXCEPT !.pc = "done", !.variant = "classic",
                         !.source_edge = source_edge, !.target_edge = target_edge,
                         !.result = [distance |-> get_edge_cost(source_edge),
                                     path |-> <<source_edge>>,
                                     reachable |-> TRUE]]
    ELSE LET target_cost == get_edge_cost(target_edge)
         IN LoopTop([NoFrame EXCEPT
                !.variant = "classic",
                !.source_edge = source_edge, !.target_edge = target_edge,
                !.dist_fwd = Put(<<>>, source_edge, 0),
                !.parent_fwd = Put(<<>>, source_edge, source_edge),
                !.pq_fwd = Push(EmptyBag, PQEntry(0, source_edge)),
                !.dist_bwd = Put(<<>>, target_edge, target_cost),
                !.parent_bwd = Put(<<>>, target_edge, target_edge),
                !.pq_bwd = Push(EmptyBag, PQEntry(target_cost, target_edge))])

\* classic_fwd_relax updating on "<=": an equal distance is pushed again.
RECURSIVE classic_fwd_relax_non_strict(_, _, _, _)
classic_fwd_relax_non_strict(f, d, u, idxs) ==
    IF idxs = <<>> THEN f
    ELSE LET sc == shortcuts_[Head(idxs)]
             nd == d + sc.cost
         IN IF sc.inside # 1 THEN classic_fwd_relax_non_strict(f, d, u, Tail(idxs))
            ELSE IF sc.to \notin DOMAIN f.dist_fwd \/ nd <= f.dist_fwd[sc.to]
            THEN LET f1 == [f EXCEPT !.dist_fwd = Put(@, sc.to, nd),
                                     !.parent_fwd = Put(@, sc.to, u),
                                     !.pq_fwd = Push(@, PQEntry(nd, sc.to))]
                     f2 == IF sc.to \in DOMAIN f.dist_bwd
                              /\ nd + f.dist_bwd[sc.to] < f.best
                           THEN [f1 EXCEPT !.best = nd + f.dist_bwd[sc.to],
                                           !.meeting = sc.to,
                                           !.found = TRUE]
                           ELSE f1
                 IN classic_fwd_relax_non_strict(f2, d, u, Tail(idxs))
            ELSE classic_fwd_relax_non_strict(f, d, u, Tail(idxs))

\* The loop over fwd_adj_[u] of the forward step, from position list idxs on.
RECURSIVE classic_fwd_relax(_, _, _, _)
classic_fwd_relax(f, d, u, idxs) ==
    IF idxs = <<>> THEN f
    ELSE LET sc == shortcuts_[Head(idxs)]
             nd == d + sc.cost
         IN IF sc.inside # 1 THEN classic_fwd_relax(f, d, u, Tail(idxs))
            ELSE IF sc.to \notin DOMAIN f.dist_fwd \/ nd < f.dist_fwd[sc.to]
            THEN LET f1 == [f EXCEPT !.dist_fwd = Put(@, sc.to, nd),
                                     !.parent_fwd = Put(@, sc.to, u),
                                     !.pq_fwd = Push(@, PQEntry(nd, sc.to))]
                     f2 == IF sc.to \in DOMAIN f.dist_bwd
                              /\ nd + f.dist_bwd[sc.to] < f.best
                           THEN [f1 EXCEPT !.best = nd + f.dist_bwd[sc.to],
                                           !.meeting = sc.to,
                                           !.found = TRUE]
                           ELSE f1
                 IN classic_fwd_relax(f2, d, u, Tail(idxs))
            ELSE classic_fwd_relax(f, d, u, Tail(idxs))

\* The forward step on the popped entry e.
classic_forward(f, e) ==
    LET d == e.dist
        u == e.edge
        f1 == [f EXCEPT !.pq_fwd = Pop(@, e)]
    IN IF u \in DOMAIN f.dist_fwd /\ d > f.dist_fwd[u] THEN LoopTop(f1)
       ELSE IF d >= f.best THEN LoopTop(f1)
       ELSE [classic_fwd_relax(f1, d, u, Adj(fwd_adj_, u)) EXCEPT !.pc = "bwd"]

RECURSIVE classic_bwd_relax(_, _, _, _)
classic_bwd_relax(f, d, u, idxs) ==
    IF idxs = <<>> THEN f
    ELSE LET sc == shortcuts_[Head(idxs)]
             nd == d + sc.cost
         IN IF sc.inside # -1 /\ sc.inside # 0
            THEN classic_bwd_relax(f, d, u, Tail(idxs))
            ELSE IF sc.from \notin DOMAIN f.dist_bwd \/ nd < f.dist_bwd[sc.from]
            THEN LET f1 == [f EXCEPT !.dist_bwd = Put(@, sc.from, nd),
                                     !.parent_bwd = Put(@, sc.from, u),
                                     !.pq_bwd = Push(@, PQEntry(nd, sc.from))]
                     f2 == IF sc.from \in DOMAIN f.dist_fwd
                              /\ f.dist_fwd[sc.from] + nd < f.best
                           THEN [f1 EXCEPT !.best = f.dist_fwd[sc.from] + nd,
                                           !.meeting = sc.from,
                                           !.found = TRUE]
                           ELSE f1
                 IN classic_bwd_relax(f2, d, u, Tail(idxs))
            ELSE classic_bwd_relax(f, d, u, Tail(idxs))

classic_backward(f, e) ==
    LET d == e.dist
        u == e.edge
        f1 == [f EXCEPT !.pq_bwd = Pop(@, e)]
    IN IF u \in DOMAIN f.dist_bwd /\ d > f.dist_bwd[u] THEN LoopTop(f1)
       ELSE IF d >= f.best THEN LoopTop(f1)
       ELSE [classic_bwd_relax(f1, d, u, Adj(bwd_adj_, u)) EXCEPT !.pc = "term"]

\* classic_termination leaving the loop at the first meeting.
classic_termination_first_meeting(f) ==
    IF f.found \/ (IsEmpty(f.pq_fwd) /\ IsEmpty(f.pq_bwd))
    THEN [f EXCEPT !.pc = "exit"]
    ELSE LoopTop(f)

\* "Early termination" at the end of the loop body.
classic_termination(f) ==
    IF ~IsEmpty(f.pq_fwd) /\ ~IsEmpty(f.pq_bwd)
    THEN IF TopDist(f.pq_fwd) >= f.best /\ TopDist(f.pq_bwd) >= f.best
         THEN [f EXCEPT !.pc = "exit"]
         ELSE LoopTop(f)
    ELSE IF IsEmpty(f.pq_fwd) /\ IsEmpty(f.pq_bwd)
    THEN [f EXCEPT !.pc = "exit"]
    ELSE LoopTop(f)

(***************************************************************************)
(* query_pruned                                                            *)
(***************************************************************************)
pruned_begin(source_edge, target_edge) ==
    IF source_edge = target_edge
    THEN [NoFrame EXCEPT !.pc = "done", !.variant = "pruned",
                         !.source_edge = source_edge, !.target_edge = target_edge,
                         !.result = [distance |-> get_edge_cost(source_edge),
                                     path |-> <<source_edge>>,
                                     reachable |-> TRUE]]
    ELSE LET target_cost == get_edge_cost(target_edge)
         IN LoopTop([NoFrame EXCEPT
                !.variant = "pruned",
                !.source_edge = source_edge, !.target_edge = target_edge,
                !.high = compute_high_cell(source_edge, target_edge),
                !.dist_fwd = Put(<<>>, source_edge, 0),
                !.parent_fwd = Put(<<>>, source_edge, source_edge),
                !.pq_fwd = Push(EmptyBag, PQEntry(0, source_edge)),
                !.dist_bwd = Put(<<>>, target_edge, target_cost),
                !.parent_bwd = Put(<<>>, target_edge, target_edge),
                !.pq_bwd = Push(EmptyBag, PQEntry(target_cost, target_edge))])

\* "Check meeting" of the forward step, on the popped (d, u).
meet_fwd(f, d, u) ==
    IF u \in DOMAIN f.dist_bwd /\ d + f.dist_bwd[u] < f.best
    THEN [f EXCEPT !.best = d + f.dist_bwd[u], !.meeting = u, !.found = TRUE]
    ELSE f

\* "Check meeting" of the backward step, on the popped (d, u).
meet_bwd(f, d, u) ==
    IF u \in DOMAIN f.dist_fwd /\ f.dist_fwd[u] + d < f.best
    THEN [f EXCEPT !.best = f.dist_fwd[u] + d, !.meeting = u, !.found = TRUE]
    ELSE f

\* pruned_fwd_relax keeping the first parent of an edge whose tentative
\* distance it improves.
RECURSIVE pruned_fwd_relax_keeps_parent(_, _, _, _)
pruned_fwd_relax_keeps_parent(f, d, u, idxs) ==
    IF idxs = <<>> THEN f
    ELSE LET sc == shortcuts_[Head(idxs)]
             nd == d + sc.cost
         IN IF sc.inside # 1 THEN pruned_fwd_relax_keeps_parent(f, d, u, Tail(idxs))
            ELSE IF sc.to \notin DOMAIN f.dist_fwd
            THEN pruned_fwd_relax_keeps_parent(
                     [f EXCEPT !.dist_fwd = Put(@, sc.to, nd),
                               !.parent_fwd = Put(@, sc.to, u),
                               !.pq_fwd = Push(@, PQEntry(nd, sc.to))],
                     d, u, Tail(idxs))
            ELSE IF nd < f.dist_fwd[sc.to]
            THEN pruned_fwd_relax_keeps_parent(
                     [f EXCEPT !.dist_fwd = Put(@, sc.to, nd),
                               !.pq_fwd = Push(@, PQEntry(nd, sc.to))],
                     d, u, Tail(idxs))
            ELSE pruned_fwd_relax_keeps_parent(f, d, u, Tail(idxs))

RECURSIVE pruned_fwd_relax(_, _, _, _)
pruned_fwd_relax(f, d, u, idxs) ==
    IF idxs = <<>> THEN f
    ELSE LET sc == shortcuts_[Head(idxs)]
             nd == d + sc.cost
         IN IF sc.inside # 1 THEN pruned_fwd_relax(f, d, u, Tail(idxs))
            ELSE IF sc.to \notin DOMAIN f.dist_fwd \/ nd < f.dist_fwd[sc.to]
            THEN pruned_fwd_relax(
                     [f EXCEPT !.dist_fwd = Put(@, sc.to, nd),
                               !.parent_fwd = Put(@, sc.to, u),
                               !.pq_fwd = Push(@, PQEntry(nd, sc.to))],
                     d, u, Tail(idxs))
            ELSE pruned_fwd_relax(f, d, u, Tail(idxs))

pruned_forward(f, e) ==
    LET d == e.dist
        u == e.edge
        f1 == meet_fwd([f EXCEPT !.pq_fwd = Pop(@, e)], d, u)
    IN IF u \in DOMAIN f1.dist_fwd /\ d > f1.dist_fwd[u] THEN LoopTop(f1)
       ELSE IF d >= f1.best THEN LoopTop(f1)
       ELSE IF ~parent_check(get_edge_cell(u), f1.high.cell, f1.high.res)
       THEN LoopTop(f1)
       ELSE [pruned_fwd_relax(f1, d, u, Adj(fwd_adj_, u)) EXCEPT !.pc = "bwd"]

\* pruned_allowed admitting ascending shortcuts too.
pruned_allowed_admits_up(inside, check, at_high) ==
    IF inside = 1 THEN TRUE
    ELSE IF inside = -1 /\ check THEN TRUE
    ELSE IF inside = 0 /\ (at_high \/ ~check) THEN TRUE
    ELSE IF inside = -2 /\ ~check THEN TRUE
    ELSE FALSE

\* "Backward filtering": whether the backward step at u may use a shortcut.
pruned_allowed(inside, check, at_high) ==
    IF inside = -1 /\ check THEN TRUE
    ELSE IF inside = 0 /\ (at_high \/ ~check) THEN TRUE
    ELSE IF inside = -2 /\ ~check THEN TRUE
    ELSE FALSE

RECURSIVE pruned_bwd_relax(_, _, _, _, _, _)
pruned_bwd_relax(f, d, u, check, at_high, idxs) ==
    IF idxs = <<>> THEN f
    ELSE LET sc == shortcuts_[Head(idxs)]
             nd == d + sc.cost
         IN IF ~pruned_allowed(sc.inside, check, at_high)
            THEN pruned_bwd_relax(f, d, u, check, at_high, Tail(idxs))
            ELSE IF sc.from \notin DOMAIN f.dist_bwd \/ nd < f.dist_bwd[sc.from]
            THEN pruned_bwd_relax(
                     [f EXCEPT !.dist_bwd = Put(@, sc.from, nd),
                               !.parent_bwd = Put(@, sc.from, u),
                               !.pq_bwd = Push(@, PQEntry(nd, sc.from))],
                     d, u, check, at_high, Tail(idxs))
            ELSE pruned_bwd_relax(f, d, u, check, at_high, Tail(idxs))

pruned_backward(f, e) ==
    LET d == e.dist
        u == e.edge
        f1 == meet_bwd([f EXCEPT !.pq_bwd = Pop(@, e)], d, u)
        u_cell == get_edge_cell(u)
        check == parent_check(u_cell, f1.high.cell, f1.high.res)
        at_high == (u_cell = f1.high.cell)
    IN IF u \in DOMAIN f1.dist_bwd /\ d > f1.dist_bwd[u] THEN LoopTop(f1)
       ELSE IF d >= f1.best THEN LoopTop(f1)
       ELSE [pruned_bwd_relax(f1, d, u, check, at_high, Adj(bwd_adj_, u))
                EXCEPT !.pc = "term"]

pruned_termination(f) ==
    IF f.best < INF
    THEN LET fwd_can == ~IsEmpty(f.pq_fwd) /\ TopDist(f.pq_fwd) < f.best
             bwd_can == ~IsEmpty(f.pq_bwd) /\ TopDist(f.pq_bwd) < f.best
         IN IF ~fwd_can /\ ~bwd_can THEN [f EXCEPT !.pc = "exit"] ELSE LoopTop(f)
    ELSE LoopTop(f)

(***************************************************************************)
(* query_multi                                                             *)
(***************************************************************************)
\* "Initialize from all sources", from list position i on.
RECURSIVE multi_seed_sources(_, _)
multi_seed_sources(f, i) ==
    IF i > Len(f.source_edges) THEN f
    ELSE LET src == f.source_edges[i]
             d == f.source_dists[i]
         IN IF src \in DOMAIN edge_meta_
            THEN multi_seed_sources(
                     [f EXCEPT !.dist_fwd = Put(@, src, d),
                               !.parent_fwd = Put(@, src, src),
                               !.pq_fwd = Push(@, PQEntry(d, src))], i + 1)
            ELSE multi_seed_sources(f, i + 1)

\* multi_seed_targets queueing a target without metadata too, with no entry
\* in the tables.
RECURSIVE multi_seed_targets_queues_unknown(_, _)
multi_seed_targets_queues_unknown(f, i) ==
    IF i > Len(f.target_edges) THEN f
    ELSE LET tgt == f.target_edges[i]
             d == f.target_dists[i] + get_edge_cost(tgt)
         IN IF tgt \in DOMAIN edge_meta_
            THEN multi_seed_targets_queues_unknown(
                     [f EXCEPT !.dist_bwd = Put(@, tgt, d),
                               !.parent_bwd = Put(@, tgt, tgt),
                               !.pq_bwd = Push(@, PQEntry(d, tgt))], i + 1)
            ELSE multi_seed_targets_queues_unknown(
                     [f EXCEPT !.pq_bwd = Push(@, PQEntry(d, tgt))], i + 1)

\* multi_seed_targets without the edge cost of the target.
RECURSIVE multi_seed_targets_no_cost(_, _)
multi_seed_targets_no_cost(f, i) ==
    IF i > Len(f.target_edges) THEN f
    ELSE LET tgt == f.target_edges[i]
             d == f.target_dists[i]
         IN IF tgt \in DOMAIN edge_meta_
            THEN multi_seed_targets_no_cost(
                     [f EXCEPT !.dist_bwd = Put(@, tgt, d),
                               !.parent_bwd = Put(@, tgt, tgt),
                               !.pq_bwd = Push(@, PQEntry(d, tgt))], i + 1)
            ELSE multi_seed_targets_no_cost(f, i + 1)

\* "Initialize from all targets", from list position i on.
RECURSIVE multi_seed_targets(_, _)
multi_seed_targets(f, i) ==
    IF i > Len(f.target_edges) THEN f
    ELSE LET tgt == f.target_edges[i]
             d == f.target_dists[i] + get_edge_cost(tgt)
         IN IF tgt \in DOMAIN edge_meta_
            THEN multi_seed_targets(
                     [f EXCEPT !.dist_bwd = Put(@, tgt, d),
                               !.parent_bwd = Put(@, tgt, tgt),
                               !.pq_bwd = Push(@, PQEntry(d, tgt))], i + 1)
            ELSE multi_seed_targets(f, i + 1)

multi_begin(source_edges, source_dists, target_edges, target_dists) ==
    LoopTop(multi_seed_targets(multi_seed_sources(
        [NoFrame EXCEPT !.variant = "multi",
                        !.source_edges = source_edges,
                        !.source_dists = source_dists,
                        !.target_edges = target_edges,
                        !.target_dists = target_dists], 1), 1))

RECURSIVE multi_fwd_relax(_, _, _, _)
multi_fwd_relax(f, d, u, idxs) ==
    IF idxs = <<>> THEN f
    ELSE LET sc == shortcuts_[Head(idxs)]
             nd == d + sc.cost
         IN IF sc.inside # 1 THEN multi_fwd_relax(f, d, u, Tail(idxs))
            ELSE IF sc.to \notin DOMAIN f.dist_fwd \/ nd < f.dist_fwd[sc.to]
            THEN multi_fwd_relax(
                     [f EXCEPT !.dist_fwd = Put(@, sc.to, nd),
                               !.parent_fwd = Put(@, sc.to, u),
                               !.pq_fwd = Push(@, PQEntry(nd, sc.to))],
                     d, u, Tail(idxs))
            ELSE multi_fwd_relax(f, d, u, Tail(idxs))

\* dist_fwd[u] in the guard is operator[]: an absent u is inserted with 0.
multi_forward(f, e) ==
    LET d == e.dist
        u == e.edge
        f1 == meet_fwd([f EXCEPT !.pq_fwd = Pop(@, e)], d, u)
    IN IF d >= f1.best THEN LoopTop(f1)
       ELSE LET f2 == [f1 EXCEPT !.dist_fwd = Put(@, u, At(@, u))]
            IN IF d > f2.dist_fwd[u] THEN LoopTop(f2)
               ELSE [multi_fwd_relax(f2, d, u, Adj(fwd_adj_, u)) EXCEPT !.pc = "bwd"]

RECURSIVE multi_bwd_relax(_, _, _, _)
multi_bwd_relax(f, d, u, idxs) ==
    IF idxs = <<>> THEN f
    ELSE LET sc == shortcuts_[Head(idxs)]
             nd == d + sc.cost
         IN IF sc.inside # -1 /\ sc.inside # 0
            THEN multi_bwd_relax(f, d, u, Tail(idxs))
            ELSE IF sc.from \notin DOMAIN f.dist_bwd \/ nd < f.dist_bwd[sc.from]
            THEN multi_bwd_relax(
                     [f EXCEPT !.dist_bwd = Put(@, sc.from, nd),
                               !.parent_bwd = Put(@, sc.from, u),
                               !.pq_bwd = Push(@, PQEntry(nd, sc.from))],
                     d, u, Tail(idxs))
            ELSE multi_bwd_relax(f, d, u, Tail(idxs))

multi_backward(f, e) ==
    LET d == e.dist
        u == e.edge
        f1 == meet_bwd([f EXCEPT !.pq_bwd = Pop(@, e)], d, u)
    IN IF d >= f1.best THEN LoopTop(f1)
       ELSE LET f2 == [f1 EXCEPT !.dist_bwd = Put(@, u, At(@, u))]
            IN IF d > f2.dist_bwd[u] THEN LoopTop(f2)
               ELSE [multi_bwd_relax(f2, d, u, Adj(bwd_adj_, u)) EXCEPT !.pc = "term"]

\* multi_termination draining both queues at the first meeting.
multi_termination_first_meeting(f) ==
    IF f.best < INF
    THEN LoopTop([f EXCEPT !.pq_fwd = EmptyBag, !.pq_bwd = EmptyBag])
    ELSE LoopTop(f)

\* "Early termination": a queue whose top cannot improve best is drained.
multi_termination(f) ==
    IF f.best < INF
    THEN LoopTop([f EXCEPT
             !.pq_fwd = IF ~IsEmpty(@) /\ TopDist(@) >= f.best THEN EmptyBag ELSE @,
             !.pq_bwd = IF ~IsEmpty(@) /\ TopDist(@) >= f.best THEN EmptyBag ELSE @])
    ELSE LoopTop(f)

(***************************************************************************)
(* "Reconstruct path", the same code in the three queries.  parent[curr]   *)
(* is operator[].  A walk that comes back to an edge it has left never     *)
(* ends.                                                                   *)
(***************************************************************************)
RECURSIVE WalkEnds(_, _, _)
WalkEnds(parent, curr, seen) ==
    IF At(parent, curr) = curr THEN TRUE
    ELSE IF curr \in seen THEN FALSE
    ELSE WalkEnds(parent, At(parent, curr), seen \cup {curr})

\* First loop: meeting, its parent, ..., the origin (before std::reverse).
RECURSIVE walk_fwd(_, _)
walk_fwd(parent_fwd, curr) ==
    IF At(parent_fwd, curr) = curr THEN <<curr>>
    ELSE <<curr>> \o walk_fwd(parent_fwd, At(parent_fwd, curr))

\* walk_bwd appending curr before it moves on, the meeting edge included.
RECURSIVE walk_bwd_from_meeting(_, _)
walk_bwd_from_meeting(parent_bwd, curr) ==
    IF At(parent_bwd, curr) = curr THEN <<curr>>
    ELSE <<curr>> \o walk_bwd_from_meeting(parent_bwd, At(parent_bwd, curr))

\* Second loop: what is appended after the meeting edge.
RECURSIVE walk_bwd(_, _)
walk_bwd(parent_bwd, curr) ==
    IF At(parent_bwd, curr) = curr THEN <<>>
    ELSE <<At(parent_bwd, curr)>> \o walk_bwd(parent_bwd, At(parent_bwd, curr))

Reverse(seq) == [i \in 1..Len(seq) |-> seq[Len(seq) + 1 - i]]

\* reconstruct returning best, not -1, when nothing was found.
reconstruct_returns_best(f) ==
    IF ~f.found
    THEN [f EXCEPT !.pc = "done",
                   !.result = [distance |-> f.best, path |-> <<>>,
                               reachable |-> FALSE]]
    ELSE [f EXCEPT !.pc = "done",
                   !.result = [distance |-> f.best,
                               path |-> Reverse(walk_fwd(f.parent_fwd, f.meeting))
                                        \o walk_bwd(f.parent_bwd, f.meeting),
                               reachable |-> TRUE]]

\* reconstruct without std::reverse.
reconstruct_no_reverse(f) ==
    IF ~f.found THEN [f EXCEPT !.pc = "done", !.result = Unreachable]
    ELSE [f EXCEPT !.pc = "done",
                   !.result = [distance |-> f.best,
                               path |-> walk_fwd(f.parent_fwd, f.meeting)
                                        \o walk_bwd(f.parent_bwd, f.meeting),
                               reachable |-> TRUE]]

\* reconstruct reading meeting = 0 as "no meeting".
reconstruct_zero_is_none(f) ==
    IF ~f.found \/ f.meeting = 0 THEN [f EXCEPT !.pc = "done", !.result = Unreachable]
    ELSE IF ~WalkEnds(f.parent_fwd, f.meeting, {})
            \/ ~WalkEnds(f.parent_bwd, f.meeting, {})
    THEN [f EXCEPT !.pc = "hung"]
    ELSE [f EXCEPT !.pc = "done",
                   !.result = [distance |-> f.best,
                               path |-> Reverse(walk_fwd(f.parent_fwd, f.meeting))
                                        \o walk_bwd(f.parent_bwd, f.meeting),
                               reachable |-> TRUE]]

reconstruct(f) ==
    IF ~f.found THEN [f EXCEPT !.pc = "done", !.result = Unreachable]
    ELSE IF ~WalkEnds(f.parent_fwd, f.meeting, {})
            \/ ~WalkEnds(f.parent_bwd, f.meeting, {})
    THEN [f EXCEPT !.pc = "hung"]
    ELSE [f EXCEPT !.pc = "done",
                   !.result = [distance |-> f.best,
                               path |-> Reverse(walk_fwd(f.parent_fwd, f.meeting))
                                        \o walk_bwd(f.parent_bwd, f.meeting),
                               reachable |-> TRUE]]

(***************************************************************************)
(* The steps of a call, as sets of next frames (one per entry a pop may    *)
(* take).                                                                  *)
(***************************************************************************)
forward(f, e) ==
    CASE f.variant = "classic" -> classic_forward(f, e)
      [] f.variant = "pruned" -> pruned_forward(f, e)
      [] f.variant = "multi" -> multi_forward(f, e)

backward(f, e) ==
    CASE f.variant = "classic" -> classic_backward(f, e)
      [] f.variant = "pruned" -> pruned_backward(f, e)
      [] f.variant = "multi" -> multi_backward(f, e)

termination(f) ==
    CASE f.variant = "classic" -> classic_termination(f)
      [] f.variant = "pruned" -> pruned_termination(f)
      [] f.variant = "multi" -> multi_termination(f)

\* "if (!pq_fwd.empty()) { ... }"
ForwardSteps(f) ==
    IF IsEmpty(f.pq_fwd) THEN {[f EXCEPT !.pc = "bwd"]}
    ELSE {forward(f, e) : e \in Tops(f.pq_fwd)}

\* "if (!pq_bwd.empty()) { ... }"
BackwardSteps(f) ==
    IF IsEmpty(f.pq_bwd) THEN {[f EXCEPT !.pc = "term"]}
    ELSE {backward(f, e) : e \in Tops(f.pq_bwd)}

Steps(f) ==
    CASE f.pc = "fwd" -> ForwardSteps(f)
      [] f.pc = "bwd" -> BackwardSteps(f)
      [] f.pc = "term" -> {termination(f)}
      [] f.pc = "exit" -> {reconstruct(f)}
      [] OTHER -> {}

\* The results a call can return from frame f on, over every order of pops.
RECURSIVE Outcomes(_)
Outcomes(f) ==
    IF f.pc \in {"done", "hung"} THEN {f.result}
    ELSE UNION {Outcomes(g) : g \in Steps(f)}

(***************************************************************************)
(* The inputs the model draws from.                                        *)
(***************************************************************************)
\* Rows of a shortcut artifact.
ArtifactRows == {r \in ShortcutRecords : r.from # r.to}

RowLess(a, b) ==
    LET ka == <<a.from, a.to, a.cost, a.inside>>
        kb == <<b.from, b.to, b.cost, b.inside>>
    IN \E i \in 1..4 : ka[i] < kb[i] /\ \A j \in 1..(i - 1) : ka[j] = kb[j]

\* Shortcut artifacts: up to n different rows, in increasing order.
ArtifactsUpTo(n) ==
    UNION {{a \in [1..k -> ArtifactRows] :
               \A i \in 1..(k - 1) : RowLess(a[i], a[i + 1])} : k \in 0..n}

Meta(cell, res, cost) == [incoming_cell |-> cell, lca_res |-> res, cost |-> cost]

\* The cost of edge e in the metadata tables.
CostOf(e) == e % (MaxCost + 1)

\* Edge metadata tables: every cell unknown; every edge in one cell of
\* resolution 1; edges in two sibling cells and in their parent; and an edge
\* without metadata beside an unknown cell and a cell of another base cell.
MetaTables ==
    { [e \in Edges |-> Meta(0, -1, CostOf(e))],
      [e \in Edges |-> Meta(4, -1, CostOf(e))],
      [e \in Edges |-> Meta(IF e = 0 THEN 4 ELSE IF e = 1 THEN 5 ELSE 2,
                            IF e = 0 THEN 0 ELSE -1, CostOf(e))],
      [e \in Edges \ {MaxEdge} |-> Meta(IF e = 0 THEN 6 ELSE 4 * (e % 2),
                                        -1, CostOf(e + 1))] }

Row(from, to, cost, inside) ==
    [from |-> from, to |-> to, cost |-> cost, inside |-> inside]

\* Larger inputs, one by one: an ascent 0 -> 1 -> 2 with a cheaper detour
\* 0 -> 3 -> 1 that descends into 1; and a target reached at two distances.
Scenarios ==
    { [shortcuts |-> <<Row(0, 1, 1, 1), Row(1, 2, 0, 1),
                       Row(0, 3, 0, 1), Row(3, 1, 0, -1)>>,
       edges |-> [e \in 0..3 |-> Meta(4, -1, 0)]],
      [shortcuts |-> <<Row(0, 1, 1, 1), Row(0, 2, 0, 1), Row(2, 1, 0, 1)>>,
       edges |-> [e \in 0..2 |-> Meta(4, -1, 1)]] }

Inputs ==
    [shortcuts : ArtifactsUpTo(MaxShortcuts), edges : MetaTables] \cup Scenarios

\* The edge identifiers a query is called with.
QueryEdges(in) ==
    Edges \cup DOMAIN in.edges
          \cup {in.shortcuts[i].from : i \in 1..Len(in.shortcuts)}
          \cup {in.shortcuts[i].to : i \in 1..Len(in.shortcuts)}

\* Endpoint lists of query_multi: up to MaxEndpoints (edge, offset) pairs.
EdgeLists == UNION {[1..n -> QueryEdges(files)] : n \in 0..MaxEndpoints}

DistLists(n) == [1..n -> 0..MaxOffset]

(***************************************************************************)
(* Actions                                                                 *)
(***************************************************************************)
Init ==
    /\ files \in Inputs
    /\ shortcuts_ = <<>>
    /\ fwd_adj_ = <<>>
    /\ bwd_adj_ = <<>>
    /\ edge_meta_ = <<>>
    /\ phase = "new"
    /\ frame = NoFrame
    /\ other = NoFrame
    /\ calls = 0
    /\ h3 = [fn |-> "none"]

\* ShortcutGraph::load_shortcuts; the driver stops when it returns false.
LoadShortcuts ==
    /\ phase = "new"
    /\ shortcuts_' = files.shortcuts
    /\ fwd_adj_' = FwdAdjOf(files.shortcuts)
    /\ bwd_adj_' = BwdAdjOf(files.shortcuts)
    /\ phase' = IF files.shortcuts # <<>> THEN "shortcuts" ELSE "failed"
    /\ UNCHANGED <<files, edge_meta_, frame, calls, other, h3>>

\* ShortcutGraph::load_edge_metadata; the driver stops when it returns false.
LoadEdgeMetadata ==
    /\ phase = "shortcuts"
    /\ edge_meta_' = files.edges
    /\ phase' = IF DOMAIN files.edges # {} THEN "ready" ELSE "failed"
    /\ UNCHANGED <<files, shortcuts_, fwd_adj_, bwd_adj_, frame, calls, other, h3>>

\* The endpoints of the call of frame f, as query_multi takes them.
SourcesOf(f) == IF f.variant = "multi" THEN f.source_edges ELSE <<f.source_edge>>

TargetsOf(f) == IF f.variant = "multi" THEN f.target_edges ELSE <<f.target_edge>>

\* The driver calls a first query on any endpoints, and after a call has
\* returned, any of the three queries on the endpoints of that call.
Idle == phase = "ready" /\ frame.pc \in {"none", "done"}

MayCall(sources, targets) ==
    \/ frame.pc = "none"
    \/ /\ sources = SourcesOf(frame)
       /\ targets = TargetsOf(frame)

\* The count of calls after one more.
Counted == IF calls < MaxCalls THEN calls + 1 ELSE calls

\* QueryClassic with best kept from the call before.
QueryClassic_keeps_best ==
    /\ Idle
    /\ \E s \in QueryEdges(files), t \in QueryEdges(files) :
          /\ MayCall(<<s>>, <<t>>)
          /\ frame' = [classic_begin(s, t) EXCEPT !.best = frame.best]
    /\ calls' = Counted
    /\ UNCHANGED <<files, store, phase, other, h3>>

QueryClassic ==
    /\ Idle
    /\ \E s \in QueryEdges(files), t \in QueryEdges(files) :
          /\ MayCall(<<s>>, <<t>>)
          /\ frame' = classic_begin(s, t)
    /\ calls' = Counted
    /\ UNCHANGED <<files, store, phase, other, h3>>

QueryPruned ==
    /\ Idle
    /\ \E s \in QueryEdges(files), t \in QueryEdges(files) :
          /\ MayCall(<<s>>, <<t>>)
          /\ frame' = pruned_begin(s, t)
    /\ calls' = Counted
    /\ UNCHANGED <<files, store, phase, other, h3>>

QueryMulti ==
    /\ Idle
    /\ \E se \in EdgeLists, te \in EdgeLists :
          /\ MayCall(se, te)
          /\ \E sd \in DistLists(Len(se)), td \in DistLists(Len(te)) :
                frame' = multi_begin(se, sd, te, td)
    /\ calls' = Counted
    /\ UNCHANGED <<files, store, phase, other, h3>>

ForwardStep ==
    /\ frame.pc = "fwd"
    /\ frame' \in ForwardSteps(frame)
    /\ UNCHANGED <<files, store, phase, calls, other, h3>>

BackwardStep ==
    /\ frame.pc = "bwd"
    /\ frame' \in BackwardSteps(frame)
    /\ UNCHANGED <<files, store, phase, calls, other, h3>>

EarlyTermination ==
    /\ frame.pc = "term"
    /\ frame' = termination(frame)
    /\ UNCHANGED <<files, store, phase, calls, other, h3>>

Reconstruct ==
    /\ frame.pc = "exit"
    /\ frame' = reconstruct(frame)
    /\ UNCHANGED <<files, store, phase, calls, other, h3>>

Next ==
    \/ LoadShortcuts
    \/ LoadEdgeMetadata
    \/ QueryClassic
    \/ QueryPruned
    \/ QueryMulti
    \/ ForwardStep
    \/ BackwardStep
    \/ EarlyTermination
    \/ Reconstruct

Spec == Init /\ [][Next]_vars

(***************************************************************************)
(* The h3_utils functions called on their own: h3 holds the last call.     *)
(***************************************************************************)
\* Resolutions a caller passes: below 0, those of the cells, and above.
ResArgs == -1..(MaxRes + 1)

H3Call(fn, a, b, res, ret) == [fn |-> fn, a |-> a, b |-> b, res |-> res, ret |-> ret]

InitH3 ==
    /\ files = [shortcuts |-> <<>>, edges |-> <<>>]
    /\ shortcuts_ = <<>>
    /\ fwd_adj_ = <<>>
    /\ bwd_adj_ = <<>>
    /\ edge_meta_ = <<>>
    /\ phase = "new"
    /\ frame = NoFrame
    /\ other = NoFrame
    /\ calls = 0
    /\ h3 = [fn |-> "none"]

CallGetResolution ==
    /\ \E c \in CellsOrNone : h3' = H3Call("get_resolution", c, 0, 0, get_resolution(c))
    /\ UNCHANGED <<files, store, phase, frame, calls, other>>

CallCellToParent ==
    /\ \E c \in CellsOrNone, r \in ResArgs :
          h3' = H3Call("cell_to_parent", c, 0, r, cell_to_parent(c, r))
    /\ UNCHANGED <<files, store, phase, frame, calls, other>>

CallFindLca ==
    /\ \E c1 \in CellsOrNone, c2 \in CellsOrNone :
          h3' = H3Call("find_lca", c1, c2, 0, find_lca(c1, c2))
    /\ UNCHANGED <<files, store, phase, frame, calls, other>>

CallParentCheck ==
    /\ \E n \in CellsOrNone, h \in CellsOrNone, r \in ResArgs :
          h3' = H3Call("parent_check", n, h, r, parent_check(n, h, r))
    /\ UNCHANGED <<files, store, phase, frame, calls, other>>

NextH3 ==
    \/ CallGetResolution
    \/ CallCellToParent
    \/ CallFindLca
    \/ CallParentCheck

SpecH3 == InitH3 /\ [][NextH3]_vars

(***************************************************************************)
(* Properties.  A returned call is a frame at "done"; the results another  *)
(* call would return on the same store are the Outcomes of its first       *)
(* frame.                                                                  *)
(***************************************************************************)
Returned(variant) == frame.pc = "done" /\ frame.variant = variant

HasMeta(e) == e \in DOMAIN edge_meta_

\* A classic or pruned call on two different edges with metadata returned.
ReturnedPair(variant) ==
    /\ Returned(variant)
    /\ frame.source_edge # frame.target_edge
    /\ HasMeta(frame.source_edge)
    /\ HasMeta(frame.target_edge)

ClassicOutcomes(s, t) == Outcomes(classic_begin(s, t))

PrunedOutcomes(s, t) == Outcomes(pruned_begin(s, t))

MultiOutcomes(s, t) == Outcomes(multi_begin(<<s>>, <<0>>, <<t>>, <<0>>))

\* C1: whenever query_classic(s,t), s # t with metadata, reports reachable,
\* query_pruned(s,t) reports reachable and returns the same distance.
C1_PrunedAgreesWithClassic ==
    (ReturnedPair("classic") /\ frame.result.reachable)
        => \A r \in PrunedOutcomes(frame.source_edge, frame.target_edge) :
              r.reachable /\ r.distance = frame.result.distance

\* The edges the store knows.
StoreEdges ==
    DOMAIN edge_meta_ \cup {shortcuts_[i].from : i \in 1..Len(shortcuts_)}
                      \cup {shortcuts_[i].to : i \in 1..Len(shortcuts_)}

Least(costs) == CHOOSE c \in costs : \A o \in costs : c <= o

\* The least cost of a chain of at most n shortcuts from a to b whose inside
\* values all lie in insides; INF when there is none.
RECURSIVE ChainCost(_, _, _, _)
ChainCost(a, b, insides, n) ==
    IF a = b THEN 0
    ELSE IF n = 0 THEN INF
    ELSE Least({INF} \cup
               {shortcuts_[i].cost + ChainCost(shortcuts_[i].to, b, insides, n - 1) :
                   i \in {j \in 1..Len(shortcuts_) :
                             /\ shortcuts_[j].from = a
                             /\ shortcuts_[j].inside \in insides}})

\* The least cost of an ascent from s to some m and a descent from m to t,
\* plus the cost of edge t.
UpDownCost(s, t) ==
    Least({ChainCost(s, m, {1}, Len(shortcuts_))
             + ChainCost(m, t, {-1, 0}, Len(shortcuts_))
             + get_edge_cost(t) : m \in StoreEdges \cup {s, t}})

\* C2: for s # t, query_classic(s,t) is reachable with the least up-down
\* cost when an up-down path exists, and unreachable exactly when none does.
C2_ClassicIsOptimal ==
    (Returned("classic") /\ frame.source_edge # frame.target_edge)
        => LET c == UpDownCost(frame.source_edge, frame.target_edge)
           IN IF c < INF
              THEN frame.result.reachable /\ frame.result.distance = c
              ELSE frame.result = Unreachable

\* C2 witness: a classic call returned the least cost where a costlier
\* up-down path exists too.
C2_Witness ==
    /\ Returned("classic")
    /\ frame.source_edge # frame.target_edge
    /\ frame.result.reachable
    /\ Len(frame.result.path) = 3
    /\ \E i \in 1..Len(shortcuts_) :
          /\ shortcuts_[i].from = frame.source_edge
          /\ shortcuts_[i].to = frame.target_edge
          /\ shortcuts_[i].inside = 1
          /\ shortcuts_[i].cost + get_edge_cost(frame.target_edge)
                > frame.result.distance

\* C3: every returned result is the unreachable triple, or is reachable
\* with a nonempty path and a distance >= 0.
C3_WellFormed ==
    frame.pc = "done"
        => \/ frame.result = Unreachable
           \/ /\ frame.result.reachable = TRUE
              /\ frame.result.path # <<>>
              /\ frame.result.distance >= 0

\* C3 witness: a pruned search that relaxed shortcuts returned the
\* unreachable triple.
C3_Witness ==
    /\ Returned("pruned")
    /\ frame.result = Unreachable
    /\ Cardinality(DOMAIN frame.dist_fwd) > 1

\* The parent walks of a reconstruction always end.
NeverHung == frame.pc # "hung"

\* The result of the reflexive query on edge s.
Reflexive(s) == [distance |-> get_edge_cost(s), path |-> <<s>>, reachable |-> TRUE]

\* A query_multi call with the single source (s, 0) and target (t, 0) returned.
ReturnedSingle ==
    /\ Returned("multi")
    /\ Len(frame.source_edges) = 1
    /\ Len(frame.target_edges) = 1
    /\ frame.source_dists = <<0>>
    /\ frame.target_dists = <<0>>

\* C4: for an edge s with metadata, query_classic(s,s), query_pruned(s,s) and
\* query_multi([(s,0)],[(s,0)]) return {edge_cost(s), [s], true}.
C4_Reflexivity ==
    /\ (frame.pc = "done" /\ frame.variant \in {"classic", "pruned"}
          /\ frame.source_edge = frame.target_edge /\ HasMeta(frame.source_edge))
         => frame.result = Reflexive(frame.source_edge)
    /\ (ReturnedSingle /\ frame.source_edges = frame.target_edges
          /\ HasMeta(frame.source_edges[1]))
         => frame.result = Reflexive(frame.source_edges[1])

\* C4 witness: query_multi returned on (s, s) where s has a positive cost and
\* lies on a cycle of shortcuts the searches may follow.
C4_Witness ==
    /\ ReturnedSingle
    /\ frame.source_edges = frame.target_edges
    /\ HasMeta(frame.source_edges[1])
    /\ get_edge_cost(frame.source_edges[1]) > 0
    /\ \E i, j \in 1..Len(shortcuts_) :
          /\ shortcuts_[i].from = frame.source_edges[1]
          /\ shortcuts_[j].to = frame.source_edges[1]
          /\ shortcuts_[i].to = shortcuts_[j].from
          /\ shortcuts_[i].inside = 1
          /\ shortcuts_[j].inside \in {-1, 0}
    /\ frame.result = Reflexive(frame.source_edges[1])

\* The source and the target of a returned call with one of each.
CallSource == IF frame.variant = "multi" THEN frame.source_edges[1] ELSE frame.source_edge

CallTarget == IF frame.variant = "multi" THEN frame.target_edges[1] ELSE frame.target_edge

\* A call of variant on one source and one target returned a path.
ReturnedPath(variant) ==
    /\ IF variant = "multi" THEN ReturnedSingle ELSE Returned(variant)
    /\ frame.result.reachable

VariantOutcomes(variant, s, t) ==
    CASE variant = "classic" -> ClassicOutcomes(s, t)
      [] variant = "pruned" -> PrunedOutcomes(s, t)
      [] variant = "multi" -> MultiOutcomes(s, t)

\* The edges strictly between the first and the last of a path.
Intermediate(path) == {path[i] : i \in 2..(Len(path) - 1)}

TriangleEq(variant) ==
    ReturnedPath(variant) =>
        \A m \in Intermediate(frame.result.path) :
            \A r1 \in VariantOutcomes(variant, CallSource, m),
               r2 \in VariantOutcomes(variant, m, CallTarget) :
                r1.distance + r2.distance = frame.result.distance

\* The sub-queries through m are reachable and their distances add up to at
\* most the distance of the query plus the cost of edge m.
TriangleLeq(variant) ==
    ReturnedPath(variant) =>
        \A m \in Intermediate(frame.result.path) :
            (variant = "multi" => HasMeta(m)) =>
            \A r1 \in VariantOutcomes(variant, CallSource, m),
               r2 \in VariantOutcomes(variant, m, CallTarget) :
                /\ r1.reachable
                /\ r2.reachable
                /\ r1.distance + r2.distance
                     <= frame.result.distance + get_edge_cost(m)

\* C5 as stated: for an intermediate edge m of the returned path, the
\* distances of the same variant satisfy dist(s,m) + dist(m,t) = dist(s,t).
C5_TriangleEquality ==
    TriangleEq("classic") /\ TriangleEq("pruned") /\ TriangleEq("multi")

\* C5 amended: for query_classic, and for query_multi with one source and one
\* target when m has metadata, both sub-queries through an intermediate edge m
\* are reachable and dist(s,m) + dist(m,t) <= dist(s,t) + edge_cost(m).
C5_TriangleInequality == TriangleLeq("classic") /\ TriangleLeq("multi")

\* C5 witness: a classic path through an intermediate edge of positive cost,
\* where the two sub-distances add up to more than the distance.
C5_Witness ==
    /\ ReturnedPath("classic")
    /\ \E m \in Intermediate(frame.result.path) :
          /\ get_edge_cost(m) > 0
          /\ \E r1 \in ClassicOutcomes(CallSource, m),
                r2 \in ClassicOutcomes(m, CallTarget) :
                r1.distance + r2.distance > frame.result.distance

\* C6: in every reachable result, each consecutive pair (a, b) of the path
\* is a shortcut of the store with from = a and to = b.
C6_PathValidity ==
    (frame.pc = "done" /\ frame.result.reachable) =>
        \A i \in 1..(Len(frame.result.path) - 1) :
            \E k \in 1..Len(shortcuts_) :
                /\ shortcuts_[k].from = frame.result.path[i]
                /\ shortcuts_[k].to = frame.result.path[i + 1]

\* C6 witness: a pruned path of three edges, whose two pairs are shortcuts.
C6_Witness ==
    /\ ReturnedPath("pruned")
    /\ Len(frame.result.path) = 3
    /\ frame.result.path[2] \notin {frame.source_edge, frame.target_edge}

\* How often edge e occurs in path.
Occurrences(path, e) == Cardinality({i \in 1..Len(path) : path[i] = e})

\* C7: the path of a reachable result that was reconstructed from a meeting
\* edge contains that meeting edge exactly once.
C7_MeetingOnce ==
    (frame.pc = "done" /\ frame.result.reachable /\ frame.found) =>
        Occurrences(frame.result.path, frame.meeting) = 1

\* C7 witness: a result whose searches both reached an edge other than the
\* meeting edge, over a zero-cost shortcut.
C7_Witness ==
    /\ frame.pc = "done"
    /\ frame.result.reachable
    /\ frame.found
    /\ \E e \in (DOMAIN frame.parent_fwd) \cap (DOMAIN frame.parent_bwd) :
          e # frame.meeting
    /\ \E k \in 1..Len(shortcuts_) : shortcuts_[k].cost = 0
    /\ Occurrences(frame.result.path, frame.meeting) = 1

\* C8: for s # t with metadata, query_multi([(s,0)],[(t,0)]) returns the
\* reachable flag and the distance of query_classic(s,t).
C8_MultiIsClassic ==
    (ReturnedSingle /\ CallSource # CallTarget
       /\ HasMeta(CallSource) /\ HasMeta(CallTarget)) =>
        \A r \in ClassicOutcomes(CallSource, CallTarget) :
            /\ r.reachable = frame.result.reachable
            /\ r.distance = frame.result.distance

\* C8 witness: query_multi returned a path of three edges on two edges with
\* metadata, with the distance of query_classic.
C8_Witness ==
    /\ ReturnedSingle
    /\ CallSource # CallTarget
    /\ HasMeta(CallSource)
    /\ HasMeta(CallTarget)
    /\ frame.result.reachable
    /\ Len(frame.result.path) = 3
    /\ \E r \in ClassicOutcomes(CallSource, CallTarget) :
          r.distance = frame.result.distance

\* The first frame of a call with the variant and the arguments of frame f.
Again(f) ==
    CASE f.variant = "classic" -> classic_begin(f.source_edge, f.target_edge)
      [] f.variant = "pruned" -> pruned_begin(f.source_edge, f.target_edge)
      [] f.variant = "multi" -> multi_begin(f.source_edges, f.source_dists,
                                            f.target_edges, f.target_dists)

ParentOfSelfChecked ==
    /\ h3.fn = "parent_check"
    /\ h3.b = cell_to_parent(h3.a, h3.res)

\* C10 as stated: for every cell c and every resolution r,
\* parent_check(c, cell_to_parent(c, r), r) returns true.
C10_ParentCheckOfParent == ParentOfSelfChecked => h3.ret = TRUE

\* C10 amended: parent_check(c, cell_to_parent(c, r), r) returns true when
\* c = 0 or r <= resolution(c), r < 0 included, and false when c # 0 and
\* r > resolution(c).
C10_ParentCheckUpToResolution ==
    ParentOfSelfChecked =>
        h3.ret = (h3.a = 0 \/ h3.res <= get_resolution(h3.a))

\* C10 witness: the check of a cell of resolution 1 against itself, at its
\* own resolution, returned true.
C10_Witness ==
    /\ ParentOfSelfChecked
    /\ h3.a # 0
    /\ h3.res = get_resolution(h3.a)
    /\ h3.res > 0
    /\ h3.ret = TRUE

\* The cells that are cell c or an ancestor of c.
AncestorsOrSelf(c) ==
    {c} \cup {cellToParent(c, r) : r \in 0..(getResolution(c) - 1)}

\* The finest cell of a nonempty set of cells of different resolutions.
Finest(cells) ==
    CHOOSE c \in cells : \A o \in cells : getResolution(o) <= getResolution(c)

\* The lowest common ancestor-or-self of a and b, 0 when there is none.
LowestCommon(a, b) ==
    IF a = 0 \/ b = 0 THEN 0
    ELSE LET common == AncestorsOrSelf(a) \cap AncestorsOrSelf(b)
         IN IF common = {} THEN 0 ELSE Finest(common)

\* C11: find_lca(a, b) returns the finest cell that is an ancestor-or-self of
\* both, and 0 exactly when there is none or an argument is 0.
C11_FindLcaIsLowest ==
    h3.fn = "find_lca" => h3.ret = LowestCommon(h3.a, h3.b)

\* C11 witness: find_lca on cells of different resolutions, neither an
\* ancestor of the other, returned their common ancestor two levels up.
C11_Witness ==
    /\ h3.fn = "find_lca"
    /\ h3.a # 0
    /\ h3.b # 0
    /\ getResolution(h3.a) = 2
    /\ getResolution(h3.b) = 1
    /\ h3.b \notin AncestorsOrSelf(h3.a)
    /\ h3.ret # 0
    /\ getResolution(h3.ret) = 0
    /\ h3.ret = LowestCommon(h3.a, h3.b)

(***************************************************************************)
(* Loading on its own, from artifacts whose inside column holds any int8.  *)
(***************************************************************************)
\* Values of the int8 column "inside": the four directions and others.
Int8Samples == {-128, -2, -1, 0, 1, 2, 127}

\* Rows between the edges 0 and 1 with any of these inside values.
LoadRows == {Row(from, 1 - from, 0, inside) : from \in 0..1, inside \in Int8Samples}

RowBefore(a, b) ==
    a.from < b.from \/ (a.from = b.from /\ a.inside < b.inside)

LoadArtifacts ==
    UNION {{a \in [1..k -> LoadRows] :
               \A i \in 1..(k - 1) : RowBefore(a[i], a[i + 1])} : k \in 0..MaxShortcuts}

InitLoad ==
    /\ files \in [shortcuts : LoadArtifacts, edges : {[e \in 0..1 |-> Meta(4, -1, 0)]}]
    /\ shortcuts_ = <<>>
    /\ fwd_adj_ = <<>>
    /\ bwd_adj_ = <<>>
    /\ edge_meta_ = <<>>
    /\ phase = "new"
    /\ frame = NoFrame
    /\ other = NoFrame
    /\ calls = 0
    /\ h3 = [fn |-> "none"]

NextLoad ==
    \/ LoadShortcuts
    \/ LoadEdgeMetadata

SpecLoad == InitLoad /\ [][NextLoad]_vars

\* The artifact read holds a record whose inside is none of -2, -1, 0, +1.
InvalidInsideRead ==
    \E i \in 1..Len(files.shortcuts) : files.shortcuts[i].inside \notin InsideValues

\* C12: after load_shortcuts has read an artifact with a record whose inside
\* is not one of -2, -1, 0, +1, the load has failed and the store holds no
\* such record.
C12_InvalidInsideIsLoadError ==
    (phase # "new" /\ InvalidInsideRead) =>
        /\ phase = "failed"
        /\ \A k \in 1..Len(shortcuts_) : shortcuts_[k].inside \in InsideValues

(***************************************************************************)
(* Two query calls running concurrently on one loaded store: frame holds   *)
(* the locals of the first and other those of the second, and a step of    *)
(* either call may come between any two steps of the other.                *)
(***************************************************************************)
\* The calls a thread makes: a variant on two different edges.
ConcurrentCalls ==
    {c \in [variant : {"classic", "pruned", "multi"},
            s : QueryEdges(files), t : QueryEdges(files)] : c.s # c.t}

\* The first frame of call c.
Begin(c) ==
    CASE c.variant = "classic" -> classic_begin(c.s, c.t)
      [] c.variant = "pruned" -> pruned_begin(c.s, c.t)
      [] c.variant = "multi" -> multi_begin(<<c.s>>, <<0>>, <<c.t>>, <<0>>)

InitConcurrent ==
    /\ files \in Scenarios
    /\ shortcuts_ = <<>>
    /\ fwd_adj_ = <<>>
    /\ bwd_adj_ = <<>>
    /\ edge_meta_ = <<>>
    /\ phase = "new"
    /\ frame = NoFrame
    /\ other = NoFrame
    /\ calls = 0
    /\ h3 = [fn |-> "none"]

StartFirst ==
    /\ phase = "ready"
    /\ frame.pc = "none"
    /\ \E c \in ConcurrentCalls : frame' = Begin(c)
    /\ calls' = Counted
    /\ UNCHANGED <<files, store, phase, other, h3>>

StartSecond ==
    /\ phase = "ready"
    /\ other.pc = "none"
    /\ \E c \in ConcurrentCalls : other' = Begin(c)
    /\ calls' = Counted
    /\ UNCHANGED <<files, store, phase, frame, h3>>

StepFirst ==
    /\ frame.pc \in {"fwd", "bwd", "term", "exit"}
    /\ frame' \in Steps(frame)
    /\ UNCHANGED <<files, store, phase, calls, other, h3>>

\* StepSecond with best shared with the first call.
StepSecond_shares_best ==
    /\ other.pc \in {"fwd", "bwd", "term", "exit"}
    /\ other' \in Steps([other EXCEPT !.best = IF frame.best < @ THEN frame.best ELSE @])
    /\ UNCHANGED <<files, store, phase, calls, frame, h3>>

StepSecond ==
    /\ other.pc \in {"fwd", "bwd", "term", "exit"}
    /\ other' \in Steps(other)
    /\ UNCHANGED <<files, store, phase, calls, frame, h3>>

NextConcurrent ==
    \/ LoadShortcuts
    \/ LoadEdgeMetadata
    \/ StartFirst
    \/ StartSecond
    \/ StepFirst
    \/ StepSecond

SpecConcurrent == InitConcurrent /\ [][NextConcurrent]_vars

\* Call f returned a result that the same call returns when run alone, with
\* the distance and the reachable flag of every such result.
AsAlone(f) ==
    f.pc = "done" =>
        /\ f.result \in Outcomes(Again(f))
        /\ \A r \in Outcomes(Again(f)) :
              /\ r.distance = f.result.distance
              /\ r.reachable = f.result.reachable

\* The store is the one the two loads built.
StoreAsLoaded ==
    /\ shortcuts_ = files.shortcuts
    /\ fwd_adj_ = FwdAdjOf(files.shortcuts)
    /\ bwd_adj_ = BwdAdjOf(files.shortcuts)
    /\ edge_meta_ = files.edges

\* C13: with the steps of two queries interleaved in any order, each query
\* returns the result it returns when run alone, and the store stays as
\* loaded.
C13_Isolation ==
    /\ AsAlone(frame)
    /\ AsAlone(other)
    /\ phase = "ready" => StoreAsLoaded

\* C13 witness: two different calls on one store both returned a path found
\* by a search, and the store is as loaded.
C13_Witness ==
    /\ frame.pc = "done"
    /\ other.pc = "done"
    /\ frame.found
    /\ other.found
    /\ <<frame.variant, frame.result>> # <<other.variant, other.result>>
    /\ frame.result \in Outcomes(Again(frame))
    /\ other.result \in Outcomes(Again(other))
    /\ StoreAsLoaded

(***************************************************************************)
(* The queries on stores where pruning is active for the edges 0 and 1     *)
(* while another edge has an unknown cell or no metadata.                  *)
(***************************************************************************)
\* Edges 0 and 1 in sibling cells and edge 2 with cell 0; edges 0 and 1 in
\* one cell and edge 2 without metadata.
UnknownCellTables ==
    { [e \in Edges |-> Meta(IF e = 0 THEN 4 ELSE IF e = 1 THEN 5 ELSE 0,
                            -1, CostOf(e))],
      [e \in Edges \ {MaxEdge} |-> Meta(4, -1, CostOf(e))] }

InitUnknownCell ==
    /\ files \in [shortcuts : ArtifactsUpTo(MaxShortcuts), edges : UnknownCellTables]
    /\ shortcuts_ = <<>>
    /\ fwd_adj_ = <<>>
    /\ bwd_adj_ = <<>>
    /\ edge_meta_ = <<>>
    /\ phase = "new"
    /\ frame = NoFrame
    /\ other = NoFrame
    /\ calls = 0
    /\ h3 = [fn |-> "none"]

NextUnknownCell ==
    \/ LoadShortcuts
    \/ LoadEdgeMetadata
    \/ QueryClassic
    \/ QueryPruned
    \/ QueryMulti
    \/ ForwardStep
    \/ BackwardStep
    \/ EarlyTermination
    \/ Reconstruct

SpecUnknownCell == InitUnknownCell /\ [][NextUnknownCell]_vars

\* A pruned call whose high cell imposes pruning is running or has returned.
PruningActive ==
    /\ frame.pc # "none"
    /\ frame.variant = "pruned"
    /\ frame.high.cell # 0
    /\ frame.high.res >= 0

\* The edges some relaxation of the search with parent table parent was made
\* from: the parents of the other edges.
Expanded(parent) == {parent[v] : v \in {w \in DOMAIN parent : parent[w] # w}}

\* C14: while query_pruned runs with pruning active, no edge whose cell is 0
\* or that has no metadata is expanded, in the forward or the backward
\* search.
C14_UnknownCellNeverExpanded ==
    PruningActive =>
        \A u \in Expanded(frame.parent_fwd) \cup Expanded(frame.parent_bwd) :
            get_edge_cell(u) # 0

(***************************************************************************)
(* A call, and then the same call on the store built from the artifacts    *)
(* with edge identifier 0 exchanged with another: other holds the returned *)
(* frame of the first call and frame runs the second.                      *)
(***************************************************************************)
\* Identifier e after 0 and k are exchanged.
Swap(k, e) == IF e = 0 THEN k ELSE IF e = k THEN 0 ELSE e

RenamedEdges(k, edges) == [i \in DOMAIN edges |-> Swap(k, edges[i])]

\* The shortcut rows with their endpoints renamed, in the order of the file.
RenamedRows(k, rows) ==
    [i \in DOMAIN rows |-> [rows[i] EXCEPT !.from = Swap(k, @), !.to = Swap(k, @)]]

\* The metadata table with its keys renamed.
RenamedMeta(k, table) ==
    [e \in {Swap(k, x) : x \in DOMAIN table} |-> table[Swap(k, e)]]

RenamedResult(k, r) == [r EXCEPT !.path = RenamedEdges(k, @)]

\* The arguments of the call of frame f, renamed, waiting to be called.
RenamedCall(k, f) ==
    [NoFrame EXCEPT !.pc = "renamed", !.variant = f.variant,
                    !.source_edge = IF f.variant = "multi" THEN @ ELSE Swap(k, f.source_edge),
                    !.target_edge = IF f.variant = "multi" THEN @ ELSE Swap(k, f.target_edge),
                    !.source_edges = RenamedEdges(k, f.source_edges),
                    !.source_dists = f.source_dists,
                    !.target_edges = RenamedEdges(k, f.target_edges),
                    !.target_dists = f.target_dists]

\* Edges in one cell; and edges in two sibling cells and in their parent.
RenameTables ==
    { [e \in Edges |-> Meta(4, -1, CostOf(e))],
      [e \in Edges |-> Meta(IF e = 0 THEN 4 ELSE IF e = 1 THEN 5 ELSE 2,
                            IF e = 0 THEN 0 ELSE -1, CostOf(e))] }

InitRenamed ==
    /\ files \in [shortcuts : ArtifactsUpTo(MaxShortcuts), edges : RenameTables]
    /\ shortcuts_ = <<>>
    /\ fwd_adj_ = <<>>
    /\ bwd_adj_ = <<>>
    /\ edge_meta_ = <<>>
    /\ phase = "new"
    /\ frame = NoFrame
    /\ other = NoFrame
    /\ calls = 0
    /\ h3 = [fn |-> "none"]

\* The driver builds the store again from the renamed artifacts.
RenameStore ==
    /\ phase = "ready"
    /\ frame.pc = "done"
    /\ other.pc = "none"
    /\ \E k \in 1..MaxEdge :
          /\ shortcuts_' = RenamedRows(k, files.shortcuts)
          /\ fwd_adj_' = FwdAdjOf(RenamedRows(k, files.shortcuts))
          /\ bwd_adj_' = BwdAdjOf(RenamedRows(k, files.shortcuts))
          /\ edge_meta_' = RenamedMeta(k, files.edges)
          /\ frame' = RenamedCall(k, frame)
    /\ other' = frame
    /\ UNCHANGED <<files, phase, calls, h3>>

\* The renamed call on the renamed store.
CallRenamed ==
    /\ frame.pc = "renamed"
    /\ frame' = Again(frame)
    /\ calls' = Counted
    /\ UNCHANGED <<files, store, phase, other, h3>>

NextRenamed ==
    \/ LoadShortcuts
    \/ LoadEdgeMetadata
    \/ StartFirst
    \/ StepFirst
    \/ RenameStore
    \/ CallRenamed

SpecRenamed == InitRenamed /\ [][NextRenamed]_vars

\* The store and the call of frame are those of other with 0 and k exchanged.
RenamedBy(k) ==
    /\ shortcuts_ = RenamedRows(k, files.shortcuts)
    /\ edge_meta_ = RenamedMeta(k, files.edges)
    /\ frame.variant = other.variant
    /\ SourcesOf(frame) = RenamedEdges(k, SourcesOf(other))
    /\ TargetsOf(frame) = RenamedEdges(k, TargetsOf(other))

\* C15: a search that found a meeting edge, edge 0 included, returns a
\* reachable result whose path holds that edge; and after the identifier 0
\* is exchanged with another in the store and the call, the call returns
\* the renamed path of the call before, and always its distance and its
\* reachable flag.
C15_ZeroIsNoSentinel ==
    /\ (frame.pc = "done" /\ frame.found) =>
          /\ frame.result.reachable
          /\ \E i \in 1..Len(frame.result.path) : frame.result.path[i] = frame.meeting
    /\ (other.pc = "done" /\ frame.pc # "none") =>
          \E k \in 1..MaxEdge :
             /\ RenamedBy(k)
             /\ RenamedResult(k, other.result) \in Outcomes(Again(frame))
             /\ \A r \in Outcomes(Again(frame)) :
                   /\ r.reachable = other.result.reachable
                   /\ r.distance = other.result.distance

\* C15 witness: the renamed call met at edge 0, an intermediate edge of its
\* path, and returned the renamed path of the first call, which met at
\* another edge.
C15_Witness ==
    /\ other.pc = "done"
    /\ frame.pc = "done"
    /\ other.found
    /\ other.meeting # 0
    /\ frame.found
    /\ frame.meeting = 0
    /\ Len(frame.result.path) = 3
    /\ frame.result.path[2] = 0
    /\ \E k \in 1..MaxEdge : RenamedBy(k) /\ frame.result = RenamedResult(k, other.result)

(***************************************************************************)
(* A call running to its return: the thread of a call keeps executing, so  *)
(* a step that stays possible is taken (weak fairness on the steps of the  *)
(* call).                                                                  *)
(***************************************************************************)
InitTerminates ==
    /\ files \in [shortcuts : ArtifactsUpTo(MaxShortcuts), edges : RenameTables]
    /\ shortcuts_ = <<>>
    /\ fwd_adj_ = <<>>
    /\ bwd_adj_ = <<>>
    /\ edge_meta_ = <<>>
    /\ phase = "new"
    /\ frame = NoFrame
    /\ other = NoFrame
    /\ calls = 0
    /\ h3 = [fn |-> "none"]

NextTerminates ==
    \/ LoadShortcuts
    \/ LoadEdgeMetadata
    \/ StartFirst
    \/ StepFirst

SpecTerminates == InitTerminates /\ [][NextTerminates]_vars /\ WF_vars(StepFirst)

\* The call of frame is in its loop or at its path reconstruction.
Running == frame.pc \in {"fwd", "bwd", "term", "exit", "hung"}

\* C16: every call of query_classic, query_pruned and query_multi that
\* runs eventually returns: its loop ends and the parent walks of its path
\* reconstruction end.
C16_Termination == Running ~> frame.pc = "done"

\* Shortcut i and shortcut j form a cycle of cost 0 that the forward search
\* may follow.
ZeroCycle(i, j) ==
    /\ shortcuts_[i].to = shortcuts_[j].from
    /\ shortcuts_[j].to = shortcuts_[i].from
    /\ shortcuts_[i].cost = 0
    /\ shortcuts_[j].cost = 0
    /\ shortcuts_[i].inside = 1
    /\ shortcuts_[j].inside = 1

\* C16 witness: a call returned after its forward search went into a cycle of
\* zero-cost shortcuts from the source and found no target.
C16_Witness ==
    /\ frame.pc = "done"
    /\ frame.result = Unreachable
    /\ \E i \in 1..Len(shortcuts_), j \in 1..Len(shortcuts_) :
          /\ ZeroCycle(i, j)
          /\ shortcuts_[i].from = CallSource
          /\ shortcuts_[i].to \in DOMAIN frame.dist_fwd
    /\ IsEmpty(frame.pq_fwd)
    /\ IsEmpty(frame.pq_bwd)

\* compute_high_cell disables pruning for the call on s and t.
PruningDisabled(s, t) == compute_high_cell(s, t) = [cell |-> 0, res |-> -1]

\* C17: when compute_high_cell disables pruning for s # t, query_pruned(s,t)
\* returns the reachable flag and the distance of query_classic(s,t).
C17_DisabledPruningIsClassic ==
    (/\ Returned("pruned")
     /\ frame.source_edge # frame.target_edge
     /\ PruningDisabled(frame.source_edge, frame.target_edge))
        => \A r \in ClassicOutcomes(frame.source_edge, frame.target_edge) :
              /\ r.reachable = frame.result.reachable
              /\ r.distance = frame.result.distance

\* Some shortcut a -> b of the store has its inside in insides.
HasShortcut(a, b, insides) ==
    \E i \in 1..Len(shortcuts_) :
        /\ shortcuts_[i].from = a
        /\ shortcuts_[i].to = b
        /\ shortcuts_[i].inside \in insides

\* The inside values the backward search of frame f may follow.
BackwardInsides(f) == IF f.variant = "pruned" THEN {-2, -1, 0} ELSE {-1, 0}

\* Every parent link of frame f is witnessed by a shortcut of its direction.
LinksWitnessed(f) ==
    /\ \A v \in DOMAIN f.parent_fwd :
          f.parent_fwd[v] # v => HasShortcut(f.parent_fwd[v], v, {1})
    /\ \A v \in DOMAIN f.parent_bwd :
          f.parent_bwd[v] # v => HasShortcut(v, f.parent_bwd[v], BackwardInsides(f))

\* The path of frame f ascends up to position m and does not ascend after it.
UpThenDown(f, m) ==
    LET path == f.result.path
    IN /\ path[m] = f.meeting
       /\ \A i \in 1..(m - 1) : HasShortcut(path[i], path[i + 1], {1})
       /\ \A i \in m..(Len(path) - 1) :
             HasShortcut(path[i], path[i + 1], BackwardInsides(f))

\* C18: at every point of every search each parent link is witnessed by a
\* shortcut of the right inside (+1 forward; -1 or 0 backward, and -2 too in
\* query_pruned), and a returned path ascends up to the meeting edge and
\* does not ascend after it.
C18_ParentLinksWitnessed ==
    /\ LinksWitnessed(frame)
    /\ (frame.pc = "done" /\ frame.found) =>
          \E m \in 1..Len(frame.result.path) : UpThenDown(frame, m)

\* C18 witness: query_pruned returned a path that leaves its meeting edge by
\* a backward link that only a shortcut with inside = -2 witnesses.
C18_Witness ==
    /\ Returned("pruned")
    /\ frame.found
    /\ \E m \in 1..(Len(frame.result.path) - 1) :
          /\ UpThenDown(frame, m)
          /\ ~HasShortcut(frame.result.path[m], frame.result.path[m + 1], {-1, 0, 1})

(***************************************************************************)
(* The queries on a store where an edge is pushed twice by the forward     *)
(* search, the second time at a smaller distance, so that a stale entry is *)
(* popped while the backward search is still on its way to that edge.      *)
(***************************************************************************)
\* Edge 2 is reached from 0 at cost 1 and through 1 at cost 0, and descends
\* to the target 5 through 3 and 4; every edge lies in one cell.
StaleEntryInputs ==
    { [shortcuts |-> <<Row(0, 2, 1, 1), Row(0, 1, 0, 1), Row(1, 2, 0, 1),
                       Row(2, 3, 0, -1), Row(3, 4, 0, -1), Row(4, 5, 0, -1)>>,
       edges |-> [e \in 0..5 |-> Meta(4, -1, 0)]] }

InitStale ==
    /\ files \in StaleEntryInputs
    /\ shortcuts_ = <<>>
    /\ fwd_adj_ = <<>>
    /\ bwd_adj_ = <<>>
    /\ edge_meta_ = <<>>
    /\ phase = "new"
    /\ frame = NoFrame
    /\ other = NoFrame
    /\ calls = 0
    /\ h3 = [fn |-> "none"]

NextStale ==
    \/ LoadShortcuts
    \/ LoadEdgeMetadata
    \/ StartFirst
    \/ ForwardStep
    \/ BackwardStep
    \/ EarlyTermination
    \/ Reconstruct

SpecStale == InitStale /\ [][NextStale]_vars

\* Entry e is stale for the distance table dist, or cannot improve best.
Discardable(e, dist) ==
    \/ e.edge \in DOMAIN dist /\ e.dist > dist[e.edge]
    \/ e.dist >= frame.best

\* This step pops a discardable entry in the forward or the backward step.
DiscardablePop ==
    \/ /\ frame.pc = "fwd"
       /\ \E e \in Tops(frame.pq_fwd) :
             Discardable(e, frame.dist_fwd) /\ frame' = forward(frame, e)
    \/ /\ frame.pc = "bwd"
       /\ \E e \in Tops(frame.pq_bwd) :
             Discardable(e, frame.dist_bwd) /\ frame' = backward(frame, e)

\* This step leaves best, meeting, found and the four tables as they were.
PureDiscard ==
    /\ frame'.best = frame.best
    /\ frame'.meeting = frame.meeting
    /\ frame'.found = frame.found
    /\ frame'.dist_fwd = frame.dist_fwd
    /\ frame'.dist_bwd = frame.dist_bwd
    /\ frame'.parent_fwd = frame.parent_fwd
    /\ frame'.parent_bwd = frame.parent_bwd

\* C19: in every variant and both directions, a pop of a stale entry, or of
\* an entry with d >= best, changes neither best, nor meeting, nor found, nor
\* any distance or parent table.
C19_StalePopIsDiscard == [][DiscardablePop => PureDiscard]_vars

\* This step is the forward step of an iteration that pops an entry.
ForwardPop == frame.pc = "fwd" /\ ~IsEmpty(frame.pq_fwd) /\ frame' # frame

\* This step is the backward step of an iteration.
BackwardTaken == frame.pc = "bwd" /\ frame' # frame

\* C20: in every iteration of the search loop, after the forward step has
\* popped an entry, discarded or not, control is at the backward step of that
\* iteration, and after the backward step it is at the early-termination
\* test of that iteration.
C20_StrictAlternation ==
    [][/\ ForwardPop => frame'.pc = "bwd"
       /\ BackwardTaken => frame'.pc = "term"]_vars

(***************************************************************************)
(* compute_high_cell called on stores whose edges 0 and 1 have any cell    *)
(* and any lca_res, and whose edge 2 has no metadata: h3 holds the call.   *)
(***************************************************************************)
HighCellTables ==
    [0..1 -> {Meta(c, r, 0) : c \in CellsOrNone, r \in ResArgs}]

InitHighCell ==
    /\ files \in [shortcuts : {<<Row(0, 1, 0, 1)>>}, edges : HighCellTables]
    /\ shortcuts_ = <<>>
    /\ fwd_adj_ = <<>>
    /\ bwd_adj_ = <<>>
    /\ edge_meta_ = <<>>
    /\ phase = "new"
    /\ frame = NoFrame
    /\ other = NoFrame
    /\ calls = 0
    /\ h3 = [fn |-> "none"]

CallComputeHighCell ==
    /\ phase = "ready"
    /\ \E s \in Edges, t \in Edges :
          h3' = H3Call("compute_high_cell", s, t,
                       compute_high_cell(s, t).res, compute_high_cell(s, t).cell)
    /\ UNCHANGED <<files, store, phase, frame, calls, other>>

NextHighCell ==
    \/ LoadShortcuts
    \/ LoadEdgeMetadata
    \/ CallComputeHighCell

SpecHighCell == InitHighCell /\ [][NextHighCell]_vars

\* compute_high_cell was called on two edges with metadata and nonzero cells.
HighCellOfKnownCells ==
    /\ h3.fn = "compute_high_cell"
    /\ HasMeta(h3.a)
    /\ HasMeta(h3.b)
    /\ get_edge_cell(h3.a) # 0
    /\ get_edge_cell(h3.b) # 0

\* C21: for two edges with metadata and nonzero cells, whatever their
\* lca_res, compute_high_cell returns (0, -1) or a nonzero cell with its own
\* resolution that is an ancestor-or-self of both cells, for which
\* parent_check succeeds at the source and at the target.
C21_HighCellEnclosesEndpoints ==
    HighCellOfKnownCells =>
        \/ h3.ret = 0 /\ h3.res = -1
        \/ /\ h3.ret # 0
           /\ h3.res = getResolution(h3.ret)
           /\ h3.ret \in AncestorsOrSelf(get_edge_cell(h3.a))
           /\ h3.ret \in AncestorsOrSelf(get_edge_cell(h3.b))
           /\ parent_check(get_edge_cell(h3.a), h3.ret, h3.res)
           /\ parent_check(get_edge_cell(h3.b), h3.ret, h3.res)

\* C21 witness: a nonzero high cell was returned for a source whose lca_res
\* is above the resolution of its cell and a target in another cell whose
\* lca_res is below the resolution of its cell.
C21_Witness ==
    /\ HighCellOfKnownCells
    /\ h3.ret # 0
    /\ get_edge_cell(h3.a) # get_edge_cell(h3.b)
    /\ edge_meta_[h3.a].lca_res > getResolution(get_edge_cell(h3.a))
    /\ edge_meta_[h3.b].lca_res >= 0
    /\ edge_meta_[h3.b].lca_res < getResolution(get_edge_cell(h3.b))
    /\ parent_check(get_edge_cell(h3.a), h3.ret, h3.res)
    /\ parent_check(get_edge_cell(h3.b), h3.ret, h3.res)

\* The call of frame is query_classic or query_pruned inside its loop.
Searching ==
    /\ frame.variant \in {"classic", "pruned"}
    /\ frame.pc \in {"fwd", "bwd", "term"}

\* The edges of a direction whose entry at their tentative distance has been
\* popped: those popped and found non-stale.
Settled(dist, pq) == {u \in DOMAIN dist : PQEntry(dist[u], u) \notin BagToSet(pq)}

\* This step pops the non-stale entry e in the forward (backward) step.
NonStaleForwardPop(e) ==
    /\ frame.pc = "fwd"
    /\ e \in Tops(frame.pq_fwd)
    /\ ~(e.edge \in DOMAIN frame.dist_fwd /\ e.dist > frame.dist_fwd[e.edge])
    /\ frame' = forward(frame, e)

NonStaleBackwardPop(e) ==
    /\ frame.pc = "bwd"
    /\ e \in Tops(frame.pq_bwd)
    /\ ~(e.edge \in DOMAIN frame.dist_bwd /\ e.dist > frame.dist_bwd[e.edge])
    /\ frame' = backward(frame, e)

\* A step of the search keeps the distance of every settled edge, a non-stale
\* pop takes an entry at the tentative distance of its edge, and no entry
\* left in a queue lies below a settled distance.
FinalAtPop ==
    /\ \A u \in Settled(frame.dist_fwd, frame.pq_fwd) :
          /\ u \in DOMAIN frame'.dist_fwd
          /\ frame'.dist_fwd[u] = frame.dist_fwd[u]
          /\ \A e \in BagToSet(frame'.pq_fwd) : e.dist >= frame.dist_fwd[u]
    /\ \A u \in Settled(frame.dist_bwd, frame.pq_bwd) :
          /\ u \in DOMAIN frame'.dist_bwd
          /\ frame'.dist_bwd[u] = frame.dist_bwd[u]
          /\ \A e \in BagToSet(frame'.pq_bwd) : e.dist >= frame.dist_bwd[u]
    /\ \A e \in BagToSet(frame.pq_fwd) :
          NonStaleForwardPop(e) =>
              /\ frame.dist_fwd[e.edge] = e.dist
              /\ frame'.dist_fwd[e.edge] = e.dist
              /\ e.edge \in Settled(frame'.dist_fwd, frame'.pq_fwd)
    /\ \A e \in BagToSet(frame.pq_bwd) :
          NonStaleBackwardPop(e) =>
              /\ frame.dist_bwd[e.edge] = e.dist
              /\ frame'.dist_bwd[e.edge] = e.dist
              /\ e.edge \in Settled(frame'.dist_bwd, frame'.pq_bwd)

\* C22: in query_classic and query_pruned, an entry (d, u) popped and found
\* non-stale has d equal to the tentative distance of u in its direction,
\* that distance never changes in the rest of the query, and the keys popped
\* in a direction never decrease.
C22_PoppedDistanceIsFinal == [][Searching => FinalAtPop]_vars

\* C22 witness: the forward search has settled an edge that it reached twice,
\* the second time at a smaller distance, and the stale entry is still
\* queued.
C22_Witness ==
    /\ Searching
    /\ \E u \in Settled(frame.dist_fwd, frame.pq_fwd) :
          \E e \in BagToSet(frame.pq_fwd) :
              e.edge = u /\ e.dist > frame.dist_fwd[u]

(***************************************************************************)
(* query_multi called with lists of up to MultiEndpoints endpoints, the    *)
(* same edge twice included, with offsets up to MultiOffset.               *)
(***************************************************************************)
MultiEndpoints == 2

MultiOffset == 1

\* Endpoint lists on the edges a and b: none, one edge, the two edges in
\* either order, one edge twice; each with every list of offsets that are
\* not all equal when the list has more than one entry.
EndpointLists(a, b) ==
    {l \in UNION {[edges : [1..n -> {a, b}], dists : [1..n -> 0..MultiOffset]] :
                     n \in 0..MultiEndpoints} :
        \A i \in 1..(Len(l.edges) - 1) : l.dists[i] # l.dists[i + 1]}

\* Shortcut artifacts of the multi-endpoint calls: no boundary shortcuts,
\* which query_multi never follows.
MultiRows == {r \in ArtifactRows : r.inside # -2}

MultiArtifacts ==
    UNION {{a \in [1..k -> MultiRows] :
               \A i \in 1..(k - 1) : RowLess(a[i], a[i + 1])} : k \in 0..MaxShortcuts}

\* Every edge with metadata; and the last edge without.
MultiTables ==
    { [e \in Edges |-> Meta(4, -1, CostOf(e))],
      [e \in Edges \ {MaxEdge} |-> Meta(4, -1, CostOf(e + 1))] }

InitMulti ==
    /\ files \in [shortcuts : MultiArtifacts, edges : MultiTables]
    /\ shortcuts_ = <<>>
    /\ fwd_adj_ = <<>>
    /\ bwd_adj_ = <<>>
    /\ edge_meta_ = <<>>
    /\ phase = "new"
    /\ frame = NoFrame
    /\ other = NoFrame
    /\ calls = 0
    /\ h3 = [fn |-> "none"]

\* The calls of query_multi: sources on the edges 0 and 1, targets on the
\* last two edges.
MultiCalls ==
    [s : EndpointLists(0, 1), t : EndpointLists(MaxEdge - 1, MaxEdge)]

QueryMultiLists ==
    /\ phase = "ready"
    /\ frame.pc = "none"
    /\ \E c \in MultiCalls :
          frame' = multi_begin(c.s.edges, c.s.dists, c.t.edges, c.t.dists)
    /\ calls' = Counted
    /\ UNCHANGED <<files, store, phase, other, h3>>

NextMulti ==
    \/ LoadShortcuts
    \/ LoadEdgeMetadata
    \/ QueryMultiLists
    \/ ForwardStep
    \/ BackwardStep
    \/ EarlyTermination
    \/ Reconstruct

SpecMulti == InitMulti /\ [][NextMulti]_vars

\* Every queued entry of frame f is for an edge that is a key of the distance
\* table of its direction.
QueuedEdgesKnown(f) ==
    /\ \A e \in BagToSet(f.pq_fwd) : e.edge \in DOMAIN f.dist_fwd
    /\ \A e \in BagToSet(f.pq_bwd) : e.edge \in DOMAIN f.dist_bwd

\* Some run of the call from frame f on pops an edge that is no key of the
\* distance table its staleness guard reads.
RECURSIVE AbsentReadReachable(_)
AbsentReadReachable(f) ==
    IF f.pc \in {"exit", "done", "hung"} THEN FALSE
    ELSE ~QueuedEdgesKnown(f) \/ \E g \in Steps(f) : AbsentReadReachable(g)

\* C23 as stated: on a loaded store some call of query_multi reaches a
\* state in which the popped edge is absent from the map that the staleness
\* guard reads, so that the read yields zero and inserts the edge.
C23_DefaultZeroReadReachable ==
    (phase = "ready" /\ frame.pc = "none") =>
        \E c \in MultiCalls :
            AbsentReadReachable(multi_begin(c.s.edges, c.s.dists, c.t.edges, c.t.dists))

\* C23: in query_multi the staleness guard reads the distance table with
\* operator[], and every edge that can be popped is already a key of that
\* table, so the read yields no default zero and inserts nothing.
C23_PoppedEdgeIsKnown ==
    frame.variant = "multi" =>
        /\ QueuedEdgesKnown(frame)
        /\ frame.pc = "fwd" =>
              \A e \in Tops(frame.pq_fwd) :
                  DOMAIN multi_forward(frame, e).dist_fwd
                      \subseteq DOMAIN frame.dist_fwd
                          \cup {shortcuts_[i].to : i \in 1..Len(shortcuts_)}
        /\ frame.pc = "bwd" =>
              \A e \in Tops(frame.pq_bwd) :
                  DOMAIN multi_backward(frame, e).dist_bwd
                      \subseteq DOMAIN frame.dist_bwd
                          \cup {shortcuts_[i].from : i \in 1..Len(shortcuts_)}

\* C23 witness: query_multi was called with a target that has no metadata,
\* and its backward search has popped an edge that it reached by a
\* relaxation.
C23_Witness ==
    /\ frame.variant = "multi"
    /\ frame.pc \in {"fwd", "bwd", "term"}
    /\ \E i \in 1..Len(frame.target_edges) : ~HasMeta(frame.target_edges[i])
    /\ \E u \in Settled(frame.dist_bwd, frame.pq_bwd) : frame.parent_bwd[u] # u

\* The least cost, over the listed sources and targets of frame f that have
\* metadata and over every edge m, of the source offset, an ascent to m, a
\* descent from m, the cost of the target edge and the target offset; INF
\* when there is none.
MultiCost(f) ==
    Least({INF} \cup
          {f.source_dists[i]
             + ChainCost(f.source_edges[i], m, {1}, Len(shortcuts_))
             + ChainCost(m, f.target_edges[j], {-1, 0}, Len(shortcuts_))
             + get_edge_cost(f.target_edges[j]) + f.target_dists[j] :
               i \in {k \in 1..Len(f.source_edges) : HasMeta(f.source_edges[k])},
               j \in {k \in 1..Len(f.target_edges) : HasMeta(f.target_edges[k])},
               m \in StoreEdges})

\* C24: query_multi returns, and what it returns is the least cost over its
\* listed sources and targets with metadata, or unreachable when there is no
\* such cost, whatever the order of the lists and also when an edge is
\* listed twice with different offsets.
C24_MultiIsOptimal ==
    (frame.variant = "multi" /\ frame.pc = "done") =>
        IF MultiCost(frame) < INF
        THEN frame.result.reachable /\ frame.result.distance = MultiCost(frame)
        ELSE frame.result = Unreachable

(***************************************************************************)
(* The cost of a returned path.                                            *)
(***************************************************************************)
\* The sums of the costs of one shortcut per consecutive pair of path from
\* position i on: a shortcut with inside = +1 before position m, one the
\* backward search of frame f may follow from position m on.
RECURSIVE PathCosts(_, _, _, _)
PathCosts(f, path, m, i) ==
    IF i >= Len(path) THEN {0}
    ELSE {shortcuts_[j].cost + c :
             j \in {k \in 1..Len(shortcuts_) :
                       /\ shortcuts_[k].from = path[i]
                       /\ shortcuts_[k].to = path[i + 1]
                       /\ shortcuts_[k].inside \in
                             (IF i < m THEN {1} ELSE BackwardInsides(f))},
             c \in PathCosts(f, path, m, i + 1)}

\* C25: the distance a classic or pruned call returns is the cost of the
\* path it returns: one shortcut per consecutive pair, ascending up to some
\* position and not ascending after it, summed and added to the cost of the
\* target edge.
C25_DistanceIsPathCost ==
    (ReturnedPath("classic") \/ ReturnedPath("pruned")) =>
        \E m \in 1..Len(frame.result.path) :
            \E c \in PathCosts(frame, frame.result.path, m, 1) :
                frame.result.distance = c + get_edge_cost(frame.target_edge)

\* C25 witness: query_pruned returned a path through an edge whose
\* tentative distance the forward search improved after first reaching it
\* (a dearer shortcut joins the source to that edge directly).
C25_Witness ==
    /\ ReturnedPath("pruned")
    /\ \E i \in 2..(Len(frame.result.path) - 1) :
          LET v == frame.result.path[i]
          IN /\ frame.result.path[i - 1] # frame.source_edge
             /\ \E k \in 1..Len(shortcuts_) :
                   /\ shortcuts_[k].from = frame.source_edge
                   /\ shortcuts_[k].to = v
                   /\ shortcuts_[k].inside = 1
                   /\ shortcuts_[k].cost > frame.dist_fwd[v]

(***************************************************************************)
(* The origins of a search.                                                *)
(***************************************************************************)
\* A classic or pruned call has seeded its two searches.
Seeded ==
    /\ frame.variant \in {"classic", "pruned"}
    /\ frame.parent_fwd # <<>>

\* The source is its own forward parent and the target its own backward
\* parent.
OriginsKept ==
    /\ frame.source_edge \in DOMAIN frame.parent_fwd
    /\ frame.parent_fwd[frame.source_edge] = frame.source_edge
    /\ frame.target_edge \in DOMAIN frame.parent_bwd
    /\ frame.parent_bwd[frame.target_edge] = frame.target_edge

\* C26: throughout a classic or pruned search the source stays its own
\* forward parent and the target its own backward parent, and a returned
\* path starts at the source edge and ends at the target edge.
C26_OriginsAndEndpoints ==
    /\ Seeded => OriginsKept
    /\ (ReturnedPath("classic") \/ ReturnedPath("pruned")) =>
          /\ frame.result.path[1] = frame.source_edge
          /\ frame.result.path[Len(frame.result.path)] = frame.target_edge

\* C26 witness: query_classic has expanded an edge a with an ascending
\* shortcut back to the source (a was reached, its queue entry has been
\* popped, and no meeting had bounded the search), so a relaxation has
\* reached the source and left its parent alone.
C26_Witness ==
    /\ Seeded
    /\ frame.variant = "classic"
    /\ frame.best = INF
    /\ \E k \in 1..Len(shortcuts_) :
          /\ shortcuts_[k].to = frame.source_edge
          /\ shortcuts_[k].inside = 1
          /\ shortcuts_[k].from # frame.source_edge
          /\ shortcuts_[k].from \in DOMAIN frame.dist_fwd
          /\ \A e \in BagToSet(frame.pq_fwd) : e.edge # shortcuts_[k].from
          /\ OriginsKept

(***************************************************************************)
(* A multi-endpoint call taken to its return, on the stores whose          *)
(* shortcuts all cost nothing (the offsets of the endpoints are the only   *)
(* distances): the steps of the one running call are always taken in time, *)
(* as the thread that calls query_multi runs it to its end.                *)
(***************************************************************************)
ZeroCostArtifacts ==
    {a \in MultiArtifacts : \A i \in 1..Len(a) : a[i].cost = 0}

InitMultiTerminates ==
    /\ files \in [shortcuts : ZeroCostArtifacts, edges : MultiTables]
    /\ shortcuts_ = <<>>
    /\ fwd_adj_ = <<>>
    /\ bwd_adj_ = <<>>
    /\ edge_meta_ = <<>>
    /\ phase = "new"
    /\ frame = NoFrame
    /\ other = NoFrame
    /\ calls = 0
    /\ h3 = [fn |-> "none"]

NextMultiTerminates ==
    \/ LoadShortcuts
    \/ LoadEdgeMetadata
    \/ QueryMultiLists
    \/ StepFirst

SpecMultiTerminates ==
    InitMultiTerminates /\ [][NextMultiTerminates]_vars /\ WF_vars(StepFirst)

====
